---- MODULE Spec2Model ----
(***************************************************************************)
(* PSCI service of the hypervisor (hv_psci.c, hv_psci.h, hv_exc.c).        *)
(*                                                                         *)
(* 64-bit registers are tuples of four 16-bit limbs, most significant      *)
(* first: 0x00000000C4000001 is <<0, 0, 50176, 1>>.  A C "unsigned int"    *)
(* view of a register keeps the two low limbs.                             *)
(***************************************************************************)
EXTENDS Integers, Sequences, FiniteSets, TLC

(***************************************************************************)
(* Bounds of the exploration.                                              *)
(***************************************************************************)
\* total number of SMC calls the guest issues in one run
MaxCalls == 3

(***************************************************************************)
(* Program constants (hv_psci.h).                                          *)
(***************************************************************************)
PSCI_CPU_POWER_LEVEL == 0
PSCI_CLUSTER_POWER_LEVEL == 1
PSCI_MAX_POWER_LEVEL == 2
PSCI_INVALID_LEVEL == 3
PSCI_ON_STATE == 0
PSCI_IDLE_STANDBY_STATE == 1
PSCI_OFF_STATE == 2
PSCI_MAX_RETENTION_STATE == 1
PSCI_MAX_OFF_STATE == 2
PLAT_LOCAL_PSTATE_WIDTH == 4
AFFINITY_STATE_ON == 0
AFFINITY_STATE_OFF == 1
AFFINITY_STATE_ON_PENDING == 2
PSCI_STATUS_SUCCESS == 0
PSCI_STATUS_NOT_SUPPORTED == -1
PSCI_STATUS_INVALID_PARAMETERS == -2
PSCI_STATUS_OPERATION_DENIED == -3
MAX_CPUS == 24

\* parent_node stored in the root: (0 - 1U), i.e. 0xFFFFFFFF, never an index
ROOT_PARENT == -1
\* no CPU holds the lock
NOBODY == -1

(***************************************************************************)
(* 64-bit words.                                                           *)
(***************************************************************************)
Limb == 0..65535
W64(l3, l2, l1, l0) == <<l3, l2, l1, l0>>
Zero64 == W64(0, 0, 0, 0)
\* (uint32_t)x and the conversion of a 64-bit argument to "unsigned int"
Lo32(x) == W64(0, 0, x[3], x[4])
\* bit n (0..31) of the low 32 bits
BitOf(x, n) == IF n < 16 THEN (x[4] \div (2^n)) % 2 ELSE (x[3] \div (2^(n - 16))) % 2
\* x & 0xffff of an unsigned int
Lo16(x) == x[4]
\* conversion of an int return code to the 64-bit register (sign extension)
IntToX(r) == IF r >= 0 THEN W64(0, 0, r \div 65536, r % 65536)
             ELSE W64(65535, 65535, 65535, 65536 + r)

(***************************************************************************)
(* Function identifiers (hv_psci.h).                                       *)
(***************************************************************************)
Fid32(n) == W64(0, 0, 33792, n)
Fid64(n) == W64(0, 0, 50176, n)
PSCI_GET_VERSION_FUNCTION_ID == Fid32(0)
PSCI_SUSPEND_CPU_ARM32_FUNCTION_ID == Fid32(1)
PSCI_CPU_OFF_FUNCTION_ID == Fid32(2)
PSCI_CPU_ON_ARM32_FUNCTION_ID == Fid32(3)
PSCI_AFFINITY_INFO_ARM32_FUNCTION_ID == Fid32(4)
PSCI_SYSTEM_POWEROFF_FUNCTION_ID == Fid32(8)
PSCI_SYSTEM_RESET_FUNCTION_ID == Fid32(9)
PSCI_FEATURES_FUNCTION_ID == Fid32(10)
PSCI_MEM_PROTECT_FUNCTION_ID == Fid32(19)
PSCI_MEM_CHECK_RANGE_ARM32_FUNCTION_ID == Fid32(20)
PSCI_SUSPEND_CPU_ARM64_FUNCTION_ID == Fid64(1)
PSCI_CPU_ON_ARM64_FUNCTION_ID == Fid64(3)
PSCI_AFFINITY_INFO_ARM64_FUNCTION_ID == Fid64(4)
PSCI_MEM_CHECK_RANGE_ARM64_FUNCTION_ID == Fid64(20)
\* version 1.0: PSCI_MAJOR_VER_1 | PSCI_MINOR_VER_0
PSCI_VERSION_1_0 == W64(0, 0, 1, 0)
\* PSCI_MAJOR_VER_1 | PSCI_MINOR_VER_1
PSCI_VERSION == W64(0, 0, 1, 1)
\* psci_func_id & SMC_64_FUNCTION
SMC_64_FUNCTION(x) == BitOf(x, 30)

(***************************************************************************)
(* Power-domain tree descriptors: [1, clusters, cores of cluster 0, ...].  *)
(* The shapes of the chip descriptors, scaled to few cores.                *)
(***************************************************************************)
Topologies == { <<1, 1, 1>>, <<1, 1, 2>>, <<1, 2, 1, 1>> }

\* value of an uninitialised stack word
Garbage == {0, 1, 7}

EmptyFn == [x \in {} |-> 0]

\* a node initialisation that links no node to its parent
InitNonCpuNode_unlinked(parent, level, idx) ==
    [ first_cpu_idx |-> 0, num_cpu_siblings |-> 0, parent_node |-> ROOT_PARENT,
      local_power_state |-> PSCI_MAX_OFF_STATE, power_level |-> level,
      lock_index |-> idx ]

\* hv_psci_initialize_power_domain_node
InitNonCpuNode(parent, level, idx) ==
    [ first_cpu_idx |-> 0, num_cpu_siblings |-> 0, parent_node |-> parent,
      local_power_state |-> PSCI_MAX_OFF_STATE, power_level |-> level,
      lock_index |-> idx ]

\* children node_index .. node_index+num_children-1 of one parent
InitChildren(st, level, num_children) ==
    LET kids == st.node_index .. (st.node_index + num_children - 1)
        par  == st.parent_node_index - 1
    IN  IF level > PSCI_CPU_POWER_LEVEL
        THEN [st EXCEPT !.non = [k \in kids |-> InitNonCpuNode(
                                     IF par < 0 THEN ROOT_PARENT ELSE par, level, k)] @@ @]
        ELSE [st EXCEPT !.cpu = [k \in kids |-> par] @@ @,
                        !.cpu0_initialised = @ \/ num_children > 0]

RECURSIVE PopulateParents(_, _, _, _)
PopulateParents(map, level, i, st) ==
    IF i = st.number_of_nodes_at_level THEN st
    ELSE LET num_children == map[st.parent_node_index + 1]
             st1 == InitChildren(st, level, num_children)
         IN  PopulateParents(map, level, i + 1,
                [st1 EXCEPT !.node_index = @ + num_children,
                            !.j = st.node_index + num_children,
                            !.next = @ + num_children,
                            !.parent_node_index = @ + 1])

RECURSIVE PopulateLevels(_, _, _)
PopulateLevels(map, level, st) ==
    IF level < PSCI_CPU_POWER_LEVEL THEN st
    ELSE LET st1 == PopulateParents(map, level, 0, [st EXCEPT !.next = 0])
         IN  PopulateLevels(map, level - 1,
                [st1 EXCEPT !.number_of_nodes_at_level = st1.next,
                            !.node_index = IF level - 1 = PSCI_CPU_POWER_LEVEL
                                           THEN 0 ELSE @])

\* hv_psci_populate_power_domain_tree: .cpu is parent_node of every CPU node,
\* .non the non-CPU nodes, .j the value returned (number of cores)
hv_psci_populate_power_domain_tree(map) ==
    PopulateLevels(map, PSCI_MAX_POWER_LEVEL,
        [ number_of_nodes_at_level |-> 1, next |-> 0, node_index |-> 0,
          parent_node_index |-> 0, j |-> 0, cpu |-> EmptyFn, non |-> EmptyFn,
          cpu0_initialised |-> FALSE ])

\* hv_psci_get_parent_nodes: node_index[1..end_power_level]
RECURSIVE ParentWalk(_, _, _, _)
ParentWalk(non, parent_node, i, end_power_level) ==
    IF i > end_power_level THEN <<>>
    ELSE <<parent_node>> \o ParentWalk(non, non[parent_node].parent_node, i + 1, end_power_level)

hv_psci_get_parent_nodes(cpuParent, non, cpu_index, end_power_level) ==
    ParentWalk(non, cpuParent[cpu_index], 1, end_power_level)

\* inner loop of hv_psci_update_power_level_limits, j = MAX-1 .. 0 (level j+1)
RECURSIVE UpdateLimitsLevels(_, _, _, _, _)
UpdateLimitsLevels(non, nodes_index, temp_index, cpu_index, lv) ==
    IF lv < 1 THEN [non |-> non, nodes_index |-> nodes_index]
    ELSE LET changed == temp_index[lv] # nodes_index[lv]
             ni   == IF changed THEN [nodes_index EXCEPT ![lv] = temp_index[lv]]
                     ELSE nodes_index
             non1 == IF changed THEN [non EXCEPT ![ni[lv]].first_cpu_idx = cpu_index]
                     ELSE non
             non2 == [non1 EXCEPT ![ni[lv]].num_cpu_siblings = @ + 1]
         IN  UpdateLimitsLevels(non2, ni, temp_index, cpu_index, lv - 1)

RECURSIVE UpdateLimitsCpus(_, _, _, _, _)
UpdateLimitsCpus(cpuParent, non, nodes_index, cpu_index, num_cores) ==
    IF cpu_index >= num_cores THEN non
    ELSE LET temp == hv_psci_get_parent_nodes(cpuParent, non, cpu_index, PSCI_MAX_POWER_LEVEL)
             r == UpdateLimitsLevels(non, nodes_index, temp, cpu_index, PSCI_MAX_POWER_LEVEL)
         \* every write of the inner loop goes to a node of the tree; the test
         \* evaluates r.non before the next core is visited
         IN  IF DOMAIN r.non = DOMAIN non
             THEN UpdateLimitsCpus(cpuParent, r.non, r.nodes_index, cpu_index + 1, num_cores)
             ELSE r.non

\* the limits computed without the boot CPU
hv_psci_update_power_level_limits_from_second(cpuParent, non, num_cores, nodes_index) ==
    UpdateLimitsCpus(cpuParent, non, nodes_index, 1, num_cores)

\* hv_psci_update_power_level_limits; nodes_index starts uninitialised
hv_psci_update_power_level_limits(cpuParent, non, num_cores, nodes_index) ==
    UpdateLimitsCpus(cpuParent, non, nodes_index, 0, num_cores)


(***************************************************************************)
(* Pure helpers of hv_psci.c.                                              *)
(***************************************************************************)
\* apple_make_pwrstate_lvl2(lvl2, lvl1, lvl0, pwr_lvl, type)
apple_make_pwrstate_lvl2(lvl2_state, lvl1_state, lvl0_state, type) ==
    W64(0, 0, type * 16384, lvl2_state * 256 + lvl1_state * 16 + lvl0_state)

\* valid_idle_states, without the terminating 0
valid_idle_states ==
    { apple_make_pwrstate_lvl2(PSCI_ON_STATE, PSCI_ON_STATE, PSCI_IDLE_STANDBY_STATE, 0),
      apple_make_pwrstate_lvl2(PSCI_ON_STATE, PSCI_IDLE_STANDBY_STATE, PSCI_IDLE_STANDBY_STATE, 0),
      apple_make_pwrstate_lvl2(PSCI_OFF_STATE, PSCI_OFF_STATE, PSCI_OFF_STATE, 1) }

\* hv_psci_power_state_sanity_check: power_state & 0xB0000000
hv_psci_power_state_sanity_check(ps) ==
    BitOf(ps, 31) + BitOf(ps, 29) + BitOf(ps, 28)

\* hv_psci_power_state_get_type: (power_state >> 30) & 1
hv_psci_power_state_get_type(ps) == BitOf(ps, 30)

\* a validation that omits the search in valid_idle_states
hv_psci_validate_power_state_no_whitelist(power_state, old_info) ==
    LET ps == Lo32(power_state)
        id == (ps[3] % 4096) * 65536 + ps[4]
    IN  IF hv_psci_power_state_sanity_check(ps) # 0
        THEN [rc |-> PSCI_STATUS_INVALID_PARAMETERS, info |-> old_info]
        ELSE [rc |-> PSCI_STATUS_SUCCESS,
              info |-> [i \in 0..PSCI_MAX_POWER_LEVEL |->
                           (id \div (2^(PLAT_LOCAL_PSTATE_WIDTH * i))) % (2^PLAT_LOCAL_PSTATE_WIDTH)]]

\* hv_psci_validate_power_state; its parameter is an unsigned int.
\* .rc is the return code, .info the power_domain_state array (index 0..2)
hv_psci_validate_power_state(power_state, old_info) ==
    LET ps == Lo32(power_state)
        id == (ps[3] % 4096) * 65536 + ps[4]
    IN  IF hv_psci_power_state_sanity_check(ps) # 0
        THEN [rc |-> PSCI_STATUS_INVALID_PARAMETERS, info |-> old_info]
        ELSE IF ps \notin valid_idle_states
        THEN [rc |-> PSCI_STATUS_INVALID_PARAMETERS, info |-> old_info]
        ELSE [rc |-> PSCI_STATUS_SUCCESS,
              info |-> [i \in 0..PSCI_MAX_POWER_LEVEL |->
                           (id \div (2^(PLAT_LOCAL_PSTATE_WIDTH * i))) % (2^PLAT_LOCAL_PSTATE_WIDTH)]]

\* hv_psci_find_target_suspend_level
hv_psci_find_target_suspend_level(info) ==
    LET nonrun == {i \in 0..PSCI_MAX_POWER_LEVEL : info[i] # PSCI_ON_STATE}
    IN  IF nonrun = {} THEN PSCI_INVALID_LEVEL
        ELSE CHOOSE i \in nonrun : \A k \in nonrun : k <= i

\* results of a read that runs off the array / a function that falls off its end
UndefLevels == {0, 1, 2, 3, 255}

\* hv_psci_find_max_off_level: the set of values it can return.  With no OFF
\* level the loop (i >= 0U is always true) never returns inside the array and
\* the function has no return statement after it: the value is undefined.
hv_psci_find_max_off_level(info) ==
    LET off == {i \in 0..PSCI_MAX_POWER_LEVEL :
                   info[i] > PSCI_MAX_RETENTION_STATE /\ info[i] <= PSCI_MAX_OFF_STATE}
    IN  IF off = {} THEN UndefLevels
        ELSE {CHOOSE i \in off : \A k \in off : k <= i}

\* hv_psci_power_state_categorize_type: RUN = 0, RETN = 1, OFF = 2
hv_psci_power_state_categorize_type(state) ==
    IF state # PSCI_ON_STATE
    THEN (IF state > PSCI_IDLE_STANDBY_STATE THEN 2 ELSE 1)
    ELSE 0

\* the loop of hv_psci_validate_suspend_request, i = target_level .. 0
RECURSIVE SuspendTypesOrdered(_, _, _)
SuspendTypesOrdered(info, i, lowest_state_type) ==
    IF i < 0 THEN TRUE
    ELSE LET t == hv_psci_power_state_categorize_type(info[i])
         IN  IF t < lowest_state_type THEN FALSE
             ELSE SuspendTypesOrdered(info, i - 1, t)

\* hv_psci_validate_suspend_request, given the value find_max_off_level returned
hv_psci_validate_suspend_request(info, is_power_down_state, max_power_off_level) ==
    LET target_level == hv_psci_find_target_suspend_level(info)
        max_retention_level == IF target_level # max_power_off_level
                               THEN target_level ELSE PSCI_INVALID_LEVEL
    IN  IF target_level = PSCI_INVALID_LEVEL THEN PSCI_STATUS_INVALID_PARAMETERS
        ELSE IF ~SuspendTypesOrdered(info, target_level, PSCI_ON_STATE)
        THEN PSCI_STATUS_INVALID_PARAMETERS
        ELSE IF is_power_down_state = 0
                /\ (max_power_off_level # PSCI_INVALID_LEVEL
                    \/ max_retention_level = PSCI_INVALID_LEVEL)
        THEN PSCI_STATUS_INVALID_PARAMETERS
        ELSE PSCI_STATUS_SUCCESS

\* the fields of psci_cpu_data_array[cpu] that are read after a power
\* transition; a node's local_power_state is written <<"node", n>>
PerCpuFields == { "affinity_state", "local_cpu_state", "target_power_level" }

\* dc_civac_range: the fields its address range covers are cleaned and
\* invalidated; dirty is the set of fields written and not yet cleaned
dc_civac_range(dirty, covered) == dirty \ covered

\* dc_ivac_range and dcsw_op_all(DCSW_OP_DCISW) invalidate without cleaning
dc_ivac_range(dirty, covered) == dirty

\* a setter that indexes the array by its base, as
\* hv_psci_initialize_power_domain_node does, instead of the core position
hv_psci_set_cpu_local_state_base(data, cpu_identifier, state) ==
    [data EXCEPT ![0].local_cpu_state = state]

\* a setter that loses the write of PSCI_ON_STATE
hv_psci_set_cpu_local_state_never_on(data, cpu_identifier, state) ==
    IF state = PSCI_ON_STATE THEN data
    ELSE [data EXCEPT ![cpu_identifier].local_cpu_state = state]

\* hv_psci_set_cpu_local_state, cpu_identifier being hv_psci_get_core_position()
hv_psci_set_cpu_local_state(data, cpu_identifier, state) ==
    [data EXCEPT ![cpu_identifier].local_cpu_state = state]

\* hv_psci_is_cpu_standby_requested
hv_psci_is_cpu_standby_requested(is_power_down_state, retention_lvl) ==
    is_power_down_state = 0 /\ retention_lvl = 0

\* a power-off state that turns off the CPU level only
hv_psci_construct_poweroff_state_cpu_only ==
    [i \in 0..PSCI_MAX_POWER_LEVEL |->
        IF i = PSCI_CPU_POWER_LEVEL THEN PSCI_OFF_STATE ELSE PSCI_ON_STATE]

\* hv_psci_construct_poweroff_state
hv_psci_construct_poweroff_state == [i \in 0..PSCI_MAX_POWER_LEVEL |-> PSCI_OFF_STATE]

\* define_psci_cap: bit number x & 0x1f
define_psci_cap(x) == x[4] % 32

\* psci_capabilities after hv_psci_init, as the set of its bit numbers
psci_capabilities ==
    { define_psci_cap(f) : f \in
        { PSCI_GET_VERSION_FUNCTION_ID, PSCI_AFFINITY_INFO_ARM64_FUNCTION_ID,
          PSCI_FEATURES_FUNCTION_ID, PSCI_CPU_OFF_FUNCTION_ID,
          PSCI_CPU_ON_ARM64_FUNCTION_ID, PSCI_CPU_ON_ARM32_FUNCTION_ID,
          PSCI_SUSPEND_CPU_ARM32_FUNCTION_ID, PSCI_SUSPEND_CPU_ARM64_FUNCTION_ID,
          PSCI_SYSTEM_POWEROFF_FUNCTION_ID, PSCI_MEM_PROTECT_FUNCTION_ID,
          PSCI_MEM_CHECK_RANGE_ARM32_FUNCTION_ID, PSCI_MEM_CHECK_RANGE_ARM64_FUNCTION_ID } }

\* PSCI_CAP_64BIT_MASK: SUSPEND, CPU_ON, AFFINITY_INFO, MIG, MIG_INFO_UP_CPU,
\* NODE_HW_STATE, STAT_RESIDENCY, STAT_COUNT, SYSTEM_RESET2, MEM_CHECK_RANGE
PSCI_CAP_64BIT_MASK == {1, 3, 4, 5, 7, 13, 16, 17, 18, 20}

\* SMCCC_VERSION 0x80000000
SMCCC_VERSION == W64(0, 0, 32768, 0)

\* a features that does not apply PSCI_CAP_64BIT_MASK to 64-bit function IDs
hv_psci_features_no_64bit_mask(psci_function_id) ==
    LET fid == Lo32(psci_function_id)
    IN  IF fid = SMCCC_VERSION THEN PSCI_STATUS_SUCCESS
        ELSE IF define_psci_cap(fid) \notin psci_capabilities
        THEN PSCI_STATUS_NOT_SUPPORTED
        ELSE PSCI_STATUS_SUCCESS

\* hv_psci_features; its parameter is an unsigned int
hv_psci_features(psci_function_id) ==
    LET fid == Lo32(psci_function_id)
        local_capabilities == IF BitOf(fid, 30) = 1
                              THEN psci_capabilities \cap PSCI_CAP_64BIT_MASK
                              ELSE psci_capabilities
    IN  IF fid = SMCCC_VERSION THEN PSCI_STATUS_SUCCESS
        ELSE IF define_psci_cap(fid) \notin local_capabilities
        THEN PSCI_STATUS_NOT_SUPPORTED
        ELSE PSCI_STATUS_SUCCESS

\* hv_psci_mem_protect: stub
hv_psci_mem_protect(enable_mem_protect) == 0

\* hv_psci_mem_protect_check_range: stub
hv_psci_mem_protect_check_range(base, length) == PSCI_STATUS_SUCCESS


(***************************************************************************)
(* State.                                                                  *)
(***************************************************************************)
VARIABLES
    psci_num_cores,        \* unsigned int psci_num_cores
    psci_cpu_nodes,        \* psci_cpu_nodes[c].parent_node
    psci_non_cpu_nodes,    \* psci_non_cpu_nodes[n]
    psci_requested_local_power_states,  \* [level 1..2][cpu]
    psci_locks,            \* psci_locks[lock_index]: the holder, or NOBODY
    psci_cpu_data_array,   \* psci_cpu_data_array[c]
    sctlr_c,               \* the C bit of SCTLR of each CPU
    spintable,             \* release slots written so far, by logical CPU
    mmio,                  \* writes to the CPU-start register, per CPU
    halted,                \* "run", or why the machine stopped
    pc,                    \* where each CPU is
    regs,                  \* ctx->regs[0..3] of the trapped SMC of each CPU
    frame,                 \* locals of the PSCI call each CPU is in
    call,                  \* what the dispatcher did with the current SMC
    calls,                 \* number of SMCs issued so far
    elr,                   \* ctx->elr of each CPU
    bhl                    \* the big hypervisor lock: its holder, or NOBODY

vars == << psci_num_cores, psci_cpu_nodes, psci_non_cpu_nodes,
           psci_requested_local_power_states, psci_locks, psci_cpu_data_array,
           sctlr_c, spintable, mmio, halted, pc, regs, frame, call, calls,
           elr, bhl >>

\* the PSCI state proper: everything the handlers keep between calls
psci_state == << psci_non_cpu_nodes, psci_requested_local_power_states, psci_locks,
                 psci_cpu_data_array, sctlr_c, spintable, mmio >>

Cpus == 0 .. (psci_num_cores - 1)
NonCpuNodes == DOMAIN psci_non_cpu_nodes
Levels == 1 .. PSCI_MAX_POWER_LEVEL

\* the CPU that runs hv_psci_init
BootCpu == 0

NoFrame == [ op |-> "none", end_power_level |-> 0, level |-> 0, parent_index |-> 0,
             parent_nodes |-> <<>>, state_info |-> [i \in 0..PSCI_MAX_POWER_LEVEL |-> PSCI_ON_STATE],
             is_power_down_state |-> 0, isr |-> 0, skip_wfi |-> FALSE, sctlr_old |-> 1 ]

NoCall == [ fid |-> Zero64, handler |-> "none", args |-> <<>>, ret |-> <<>>,
            log |-> <<>>, dirty |-> {} ]

NoRegs == [ x0 |-> Zero64, x1 |-> Zero64, x2 |-> Zero64, x3 |-> Zero64 ]

\* the per-CPU fields hv_psci_init reads from the device tree: cores of one
\* cluster are numbered from 0, "reg" is cluster << 8 | core, one die
AdtCpuData(cpuParent, c) ==
    LET cluster == cpuParent[c] - 1
        first == CHOOSE k \in DOMAIN cpuParent :
                    cpuParent[k] = cpuParent[c] /\ \A m \in DOMAIN cpuParent :
                        cpuParent[m] = cpuParent[c] => k <= m
    IN  [ cpu_index |-> c, cluster_index |-> cluster, die_index |-> 0,
          local_core_number |-> c - first, reg_value |-> cluster * 256 + (c - first) ]

\* psci_cpu_data_array[c] at the end of hv_psci_populate_power_domain_tree:
\* hv_psci_initialize_power_domain_node writes slot 0 for every CPU node, the
\* other slots keep the zeroes of static storage
PopulatedCpuData(c) ==
    IF c = 0
    THEN [ affinity_state |-> AFFINITY_STATE_OFF, target_power_level |-> PSCI_INVALID_LEVEL,
           local_cpu_state |-> PSCI_MAX_OFF_STATE ]
    ELSE [ affinity_state |-> 0, target_power_level |-> 0, local_cpu_state |-> 0 ]

\* the matrix as static storage holds it before the loops run
hv_psci_init_requested_local_power_states_skipped(num_cores) ==
    [l \in Levels |-> [c \in 0..(num_cores - 1) |-> 0]]

\* hv_psci_init_requested_local_power_states
hv_psci_init_requested_local_power_states(num_cores) ==
    [l \in Levels |-> [c \in 0..(num_cores - 1) |-> PSCI_MAX_OFF_STATE]]

\* hv_psci_init for one descriptor; g1, g2 the uninitialised nodes_index[]
hv_psci_init(map, g1, g2) ==
    LET tree  == hv_psci_populate_power_domain_tree(map)
        n     == tree.j
        non0  == hv_psci_update_power_level_limits(tree.cpu, tree.non, n, <<g1, g2>>)
        path  == hv_psci_get_parent_nodes(tree.cpu, non0, BootCpu, PSCI_MAX_POWER_LEVEL)
        onp   == {path[i] : i \in 1..Len(path)}
        \* hv_psci_set_power_domains_to_on_state(PSCI_MAX_POWER_LEVEL) on the boot CPU
        non1  == [k \in DOMAIN non0 |->
                    IF k \in onp THEN [non0[k] EXCEPT !.local_power_state = PSCI_ON_STATE]
                    ELSE non0[k]]
        req0  == hv_psci_init_requested_local_power_states(n)
        req1  == [l \in Levels |-> [req0[l] EXCEPT ![BootCpu] = PSCI_ON_STATE]]
        data  == [c \in 0..(n - 1) |->
                    LET d == PopulatedCpuData(c) @@ AdtCpuData(tree.cpu, c)
                    IN  IF c = BootCpu
                        THEN [d EXCEPT !.affinity_state = AFFINITY_STATE_ON,
                                       !.local_cpu_state = PSCI_ON_STATE]
                        ELSE d]
    IN  [ num_cores |-> n, cpu |-> tree.cpu, non |-> non1, req |-> req1, data |-> data ]

Init ==
    \E map \in Topologies, g1 \in Garbage, g2 \in Garbage :
        LET i == hv_psci_init(map, g1, g2) IN
        /\ psci_num_cores = i.num_cores
        /\ psci_cpu_nodes = i.cpu
        /\ psci_non_cpu_nodes = i.non
        /\ psci_requested_local_power_states = i.req
        /\ psci_locks = [k \in DOMAIN i.non |-> NOBODY]
        /\ psci_cpu_data_array = i.data
        /\ sctlr_c = [c \in DOMAIN i.cpu |-> 1]
        /\ spintable = EmptyFn
        /\ mmio = [c \in DOMAIN i.cpu |-> <<>>]
        /\ halted = "run"
        /\ pc = [c \in DOMAIN i.cpu |-> IF c = BootCpu THEN "guest" ELSE "spin"]
        /\ regs = [c \in DOMAIN i.cpu |-> NoRegs]
        /\ frame = [c \in DOMAIN i.cpu |-> NoFrame]
        /\ call = [c \in DOMAIN i.cpu |-> NoCall]
        /\ calls = 0
        /\ elr = [c \in DOMAIN i.cpu |-> 0]
        /\ bhl = NOBODY


(***************************************************************************)
(* The guest's requests.                                                   *)
(***************************************************************************)
\* MPIDR of CPU c: bit 31, bit 16 for the cores of the second cluster on, "reg"
MpidrOf(c) ==
    W64(0, 0, 32768 + (IF psci_cpu_data_array[c].cluster_index > 0 THEN 1 ELSE 0),
        psci_cpu_data_array[c].reg_value)
\* the same with bits above bit 31 set
High(x) == W64(x[1], 1, x[3], x[4])

EntryPoint == W64(0, 0, 2, 4096)
ContextId == W64(0, 0, 0, 85)
\* power_state values: the three of valid_idle_states, one outside the list,
\* one with a reserved bit, and the deepest one with bits above bit 31 set
PowerStates32 == valid_idle_states \cup { W64(0, 0, 0, 15), W64(0, 0, 32768, 1) }
PowerStates64 ==
    { apple_make_pwrstate_lvl2(PSCI_ON_STATE, PSCI_ON_STATE, PSCI_IDLE_STANDBY_STATE, 0),
      High(apple_make_pwrstate_lvl2(PSCI_OFF_STATE, PSCI_OFF_STATE, PSCI_OFF_STATE, 1)),
      Zero64 }

\* function IDs of no case: SMC32 and SMC64 forms
UnknownIds == { Fid32(153), Fid64(153), Fid64(2) }

Req(x0, x1, x2, x3) == [ x0 |-> x0, x1 |-> x1, x2 |-> x2, x3 |-> x3 ]

Requests ==
    { Req(f, Zero64, Zero64, Zero64) :
        f \in { PSCI_GET_VERSION_FUNCTION_ID, PSCI_CPU_OFF_FUNCTION_ID,
                PSCI_SYSTEM_POWEROFF_FUNCTION_ID, PSCI_SYSTEM_RESET_FUNCTION_ID } \cup UnknownIds }
    \cup { Req(PSCI_SUSPEND_CPU_ARM32_FUNCTION_ID, ps, High(EntryPoint), High(ContextId)) :
             ps \in PowerStates32 }
    \cup { Req(PSCI_SUSPEND_CPU_ARM64_FUNCTION_ID, ps, High(EntryPoint), High(ContextId)) :
             ps \in PowerStates64 }
    \cup { Req(f, MpidrOf(k), High(EntryPoint), High(ContextId)) :
             f \in { PSCI_CPU_ON_ARM32_FUNCTION_ID, PSCI_CPU_ON_ARM64_FUNCTION_ID },
             k \in Cpus }
    \cup { Req(PSCI_CPU_ON_ARM32_FUNCTION_ID, W64(0, 0, 32768, 1285), EntryPoint, ContextId),
           Req(PSCI_CPU_ON_ARM64_FUNCTION_ID, High(MpidrOf(psci_num_cores - 1)),
               EntryPoint, ContextId) }
    \cup { Req(PSCI_AFFINITY_INFO_ARM32_FUNCTION_ID, MpidrOf(BootCpu), Zero64, Zero64),
           Req(PSCI_AFFINITY_INFO_ARM64_FUNCTION_ID, MpidrOf(psci_num_cores - 1), Zero64, Zero64) }
    \cup { Req(PSCI_FEATURES_FUNCTION_ID, f, Zero64, Zero64) :
             f \in { PSCI_CPU_ON_ARM32_FUNCTION_ID, PSCI_AFFINITY_INFO_ARM64_FUNCTION_ID,
                     High(PSCI_SYSTEM_RESET_FUNCTION_ID) } }
    \cup { Req(PSCI_MEM_PROTECT_FUNCTION_ID, High(W64(0, 0, 0, 1)), Zero64, Zero64) }
    \cup { Req(f, High(EntryPoint), High(ContextId), High(W64(0, 0, 0, 7))) :
             f \in { PSCI_MEM_CHECK_RANGE_ARM32_FUNCTION_ID,
                     PSCI_MEM_CHECK_RANGE_ARM64_FUNCTION_ID } }

(***************************************************************************)
(* hv_handle_psci_smc: the two switches.                                   *)
(***************************************************************************)
\* the case of the switch that psci_func_id selects
SmcCase(x0) ==
    IF SMC_64_FUNCTION(x0) = 0
    THEN CASE x0 = PSCI_GET_VERSION_FUNCTION_ID -> "version"
           [] x0 = PSCI_SUSPEND_CPU_ARM32_FUNCTION_ID -> "suspend_cpu"
           [] x0 = PSCI_CPU_OFF_FUNCTION_ID -> "turn_off_cpu"
           [] x0 = PSCI_CPU_ON_ARM32_FUNCTION_ID -> "turn_on_cpu"
           [] x0 = PSCI_SYSTEM_POWEROFF_FUNCTION_ID -> "turn_off_system"
           [] x0 = PSCI_SYSTEM_RESET_FUNCTION_ID -> "reset_system"
           [] x0 = PSCI_FEATURES_FUNCTION_ID -> "features"
           [] x0 = PSCI_MEM_PROTECT_FUNCTION_ID -> "mem_protect"
           [] x0 = PSCI_MEM_CHECK_RANGE_ARM32_FUNCTION_ID -> "mem_protect_check_range"
           [] OTHER -> "default"
    ELSE CASE x0 = PSCI_SUSPEND_CPU_ARM64_FUNCTION_ID -> "suspend_cpu"
           [] x0 = PSCI_CPU_ON_ARM64_FUNCTION_ID -> "turn_on_cpu"
           [] x0 = PSCI_MEM_CHECK_RANGE_ARM64_FUNCTION_ID -> "mem_protect_check_range"
           [] OTHER -> "no_case"

\* a dispatcher that truncates the arguments of SMC64 calls as well
SmcArgs_truncating_smc64(r) ==
    << Lo32(r.x1), Lo32(r.x2), Lo32(r.x3) >>

\* a dispatcher that forwards regs[1..3] of SMC32 calls untruncated
SmcArgs_untruncated_smc32(r) ==
    << r.x1, r.x2, r.x3 >>

\* the values the dispatcher forwards: w1, w2, w3 for SMC32, regs[1..3] for SMC64
SmcArgs(r) ==
    IF SMC_64_FUNCTION(r.x0) = 0
    THEN << Lo32(r.x1), Lo32(r.x2), Lo32(r.x3) >>
    ELSE << r.x1, r.x2, r.x3 >>

\* the arguments of the call expression of each case
HandlerArgs(h, a) ==
    CASE h \in {"suspend_cpu", "turn_on_cpu"} -> a
      [] h = "mem_protect_check_range" -> << a[1], a[2] >>
      [] h \in {"features", "mem_protect"} -> << a[1] >>
      [] OTHER -> <<>>

\* address of the SMC instruction the guest executes
SmcInsn == 4096

\* hv_exc_sync with EC == SMC that also calls hv_exc_entry (spin_lock(&bhl))
\* before the dispatcher
BhlAtDispatch_locked(c, holder) == c

\* hv_exc_sync, EC == SMC: hv_handle_psci_smc runs in the first switch,
\* before hv_exc_entry, and the handled path returns before hv_exc_entry
\* and hv_exc_exit: bhl is left alone
BhlAtDispatch(c, holder) == holder

\* a handled path that also runs the second "ctx->elr += 4"
ElrAfterHandled_twice(e) == e + 8

\* hv_exc_sync after hv_handle_psci_smc returned true: ctx->elr += 4
ElrAfterHandled(e) == e + 4

\* a guest CPU executes SMC with register file r; the dispatcher takes case h
Trap(c, r, h) ==
    /\ SmcCase(r.x0) = h
    /\ calls' = calls + 1
    /\ elr' = [elr EXCEPT ![c] = SmcInsn]
    /\ bhl' = BhlAtDispatch(c, bhl)

\* CPU c runs guest code and may execute SMC
InGuest(c) ==
    /\ halted = "run"
    /\ pc[c] = "guest"
    /\ calls < MaxCalls

Called(r, h, ret) ==
    [ fid |-> r.x0, handler |-> h, args |-> HandlerArgs(h, SmcArgs(r)), ret |-> ret,
      log |-> <<>>, dirty |-> {} ]

\* case PSCI_GET_VERSION_FUNCTION_ID
SmcVersion(c) ==
    /\ InGuest(c)
    /\ \E r \in Requests :
        /\ Trap(c, r, "version")
        /\ regs' = [regs EXCEPT ![c] = [r EXCEPT !.x0 = PSCI_VERSION]]
        /\ call' = [call EXCEPT ![c] = Called(r, "version", <<>>)]
        /\ pc' = [pc EXCEPT ![c] = "ret"]
        /\ UNCHANGED << psci_num_cores, psci_cpu_nodes, psci_state, halted, frame >>

\* cases FEATURES, MEM_PROTECT, MEM_CHECK_RANGE: retval = handler(...); regs[0] = retval
SmcStateless(c) ==
    /\ InGuest(c)
    /\ \E r \in Requests, h \in {"features", "mem_protect", "mem_protect_check_range"} :
        LET a == HandlerArgs(h, SmcArgs(r))
            retval == CASE h = "features" -> hv_psci_features(a[1])
                        [] h = "mem_protect" -> hv_psci_mem_protect(a[1])
                        [] OTHER -> hv_psci_mem_protect_check_range(a[1], a[2])
        IN  /\ Trap(c, r, h)
            /\ regs' = [regs EXCEPT ![c] = [r EXCEPT !.x0 = IntToX(retval)]]
            /\ call' = [call EXCEPT ![c] = Called(r, h, <<retval>>)]
            /\ pc' = [pc EXCEPT ![c] = "ret"]
            /\ UNCHANGED << psci_num_cores, psci_cpu_nodes, psci_state, halted, frame >>

\* default: of the SMC32 switch
SmcDefault(c) ==
    /\ InGuest(c)
    /\ \E r \in Requests :
        /\ Trap(c, r, "default")
        /\ regs' = [regs EXCEPT ![c] = [r EXCEPT !.x0 = IntToX(PSCI_STATUS_NOT_SUPPORTED)]]
        /\ call' = [call EXCEPT ![c] = Called(r, "default", <<>>)]
        /\ pc' = [pc EXCEPT ![c] = "ret"]
        /\ UNCHANGED << psci_num_cores, psci_cpu_nodes, psci_state, halted, frame >>

\* the SMC64 switch has no default: no case runs, regs[0] is left alone
SmcNoCase(c) ==
    /\ InGuest(c)
    /\ \E r \in Requests :
        /\ Trap(c, r, "no_case")
        /\ regs' = [regs EXCEPT ![c] = r]
        /\ call' = [call EXCEPT ![c] = Called(r, "no_case", <<>>)]
        /\ pc' = [pc EXCEPT ![c] = "ret"]
        /\ UNCHANGED << psci_num_cores, psci_cpu_nodes, psci_state, halted, frame >>

\* cases SYSTEM_POWEROFF and SYSTEM_RESET: flush_and_reboot / reboot, no return
SmcSystem(c) ==
    /\ InGuest(c)
    /\ \E r \in Requests, h \in {"turn_off_system", "reset_system"} :
        /\ Trap(c, r, h)
        /\ regs' = [regs EXCEPT ![c] = r]
        /\ call' = [call EXCEPT ![c] = Called(r, h, <<>>)]
        /\ halted' = h
        /\ UNCHANGED << psci_num_cores, psci_cpu_nodes, psci_state, pc, frame >>

\* hv_exc_sync after hv_handle_psci_smc returned true: back to the guest, which
\* goes on and uses its registers
HvExcSyncReturn(c) ==
    /\ halted = "run"
    /\ pc[c] = "ret"
    /\ pc' = [pc EXCEPT ![c] = "guest"]
    /\ regs' = [regs EXCEPT ![c] = NoRegs]
    /\ call' = [call EXCEPT ![c] = NoCall]
    /\ frame' = [frame EXCEPT ![c] = NoFrame]
    /\ elr' = [elr EXCEPT ![c] = ElrAfterHandled(@)]
    /\ UNCHANGED << psci_num_cores, psci_cpu_nodes, psci_state, halted, calls, bhl >>

(***************************************************************************)
(* hv_psci_turn_on_cpu (spin-table path).                                  *)
(***************************************************************************)
\* hv_psci_translate_mpidr_to_cpu; its parameter is an unsigned int.  The scan
\* covers all MAX_CPUS slots and keeps the last match; 255 is 0xff
hv_psci_translate_mpidr_to_cpu(target_cpu) ==
    LET mpidr_reg_to_check == Lo16(Lo32(target_cpu))
        saved_reg_value(i) == IF i < psci_num_cores
                              THEN psci_cpu_data_array[i].reg_value ELSE 0
        hits == {i \in 0..(MAX_CPUS - 1) : saved_reg_value(i) = mpidr_reg_to_check}
    IN  IF hits = {} THEN 255
        ELSE CHOOSE i \in hits : \A k \in hits : k <= i

SlotOf(k) == IF k \in DOMAIN spintable THEN spintable[k] ELSE Zero64

hv_psci_turn_on_cpu(c) ==
    /\ InGuest(c)
    /\ \E r \in Requests :
        LET a == HandlerArgs("turn_on_cpu", SmcArgs(r))
            cpu_identifier == hv_psci_translate_mpidr_to_cpu(a[1])
        IN  /\ Trap(c, r, "turn_on_cpu")
            /\ \/ /\ cpu_identifier = 255     \* panic("MPIDR translation failed")
                  /\ halted' = "panic"
                  /\ regs' = [regs EXCEPT ![c] = r]
                  /\ call' = [call EXCEPT ![c] = Called(r, "turn_on_cpu", <<>>)]
                  /\ UNCHANGED << spintable, pc >>
               \/ /\ cpu_identifier # 255
                  /\ spintable' = (cpu_identifier :> a[2]) @@ spintable
                  /\ regs' = [regs EXCEPT ![c] = [r EXCEPT !.x0 = IntToX(PSCI_STATUS_SUCCESS)]]
                  /\ call' = [call EXCEPT ![c] = Called(r, "turn_on_cpu", <<PSCI_STATUS_SUCCESS>>)]
                  /\ pc' = [pc EXCEPT ![c] = "ret"]
                  /\ UNCHANGED halted
            /\ UNCHANGED << psci_num_cores, psci_cpu_nodes, psci_non_cpu_nodes,
                            psci_requested_local_power_states, psci_locks,
                            psci_cpu_data_array, sctlr_c, mmio, frame >>

\* a secondary CPU leaves the spin table once its release slot is written
SecondaryStart(k) ==
    /\ halted = "run"
    /\ pc[k] = "spin"
    /\ SlotOf(k) # Zero64
    /\ pc' = [pc EXCEPT ![k] = "guest"]
    /\ UNCHANGED << psci_num_cores, psci_cpu_nodes, psci_state, halted, regs, frame,
                    call, calls >>
    /\ UNCHANGED << elr, bhl >>

(***************************************************************************)
(* Locks of the power-domain tree.                                         *)
(***************************************************************************)
\* an acquire loop that never advances to the next parent: it takes the lock
\* of the first parent at every iteration
AcquireLevels_same_parent(end_power_level) ==
    [i \in 1..end_power_level |-> 1]

\* the levels hv_psci_acquire_power_domain_tree_locks locks, in order:
\* for (level = 1; level < end_power_level; level++)
AcquireLevels(end_power_level) ==
    [i \in 1..(end_power_level - 1) |-> i]

\* a release loop that stops after the node at end_power_level
ReleaseLevels_top_only(end_power_level) == << end_power_level >>

\* the levels hv_psci_release_power_domain_tree_locks unlocks, in order:
\* for (level = end_power_level; level >= 1; level--)
ReleaseLevels(end_power_level) ==
    [i \in 1..end_power_level |-> end_power_level + 1 - i]

\* where a call goes on after hv_psci_acquire_power_domain_tree_locks
AfterAcquire(op) ==
    CASE op = "off" -> "coord"
      [] op = "suspend" -> "isr_check"
      [] OTHER -> "get_target"

\* the frame of a call that starts at hv_psci_get_parent_nodes
NewFrame(c, op, end_power_level, info, is_power_down_state) ==
    [ op |-> op, end_power_level |-> end_power_level, level |-> 1,
      parent_index |-> psci_cpu_nodes[c],
      parent_nodes |-> hv_psci_get_parent_nodes(psci_cpu_nodes, psci_non_cpu_nodes,
                                                c, end_power_level),
      state_info |-> info, is_power_down_state |-> is_power_down_state,
      isr |-> 0, skip_wfi |-> FALSE,
      \* the C bit when the frame starts: what read_sctlr() of
      \* hv_psci_power_down_cpu_maintenance returns, no step before it writes SCTLR
      sctlr_old |-> sctlr_c[c] ]

PcAfterParents(op, end_power_level) ==
    IF Len(AcquireLevels(end_power_level)) > 0 THEN "acquire" ELSE AfterAcquire(op)

\* one iteration of hv_psci_acquire_power_domain_tree_locks: hv_psci_get_lock
\* spins until the lock is free (frame.level counts the iterations)
AcquireLock(c) ==
    /\ halted = "run"
    /\ pc[c] = "acquire"
    /\ LET f == frame[c]
           order == AcquireLevels(f.end_power_level)
           node == f.parent_nodes[order[f.level]]
           lock == psci_non_cpu_nodes[node].lock_index
       IN  /\ psci_locks[lock] = NOBODY
           /\ psci_locks' = [psci_locks EXCEPT ![lock] = c]
           /\ call' = [call EXCEPT ![c].log = Append(@, <<"lock", node, TRUE>>)]
           /\ IF f.level < Len(order)
              THEN /\ frame' = [frame EXCEPT ![c].level = @ + 1]
                   /\ UNCHANGED pc
              ELSE /\ frame' = [frame EXCEPT ![c].level = 1]
                   /\ pc' = [pc EXCEPT ![c] = AfterAcquire(f.op)]
    /\ UNCHANGED << psci_num_cores, psci_cpu_nodes, psci_non_cpu_nodes,
                    psci_requested_local_power_states, psci_cpu_data_array, sctlr_c,
                    spintable, mmio, halted, regs, calls >>
    /\ UNCHANGED << elr, bhl >>

\* one iteration of hv_psci_release_power_domain_tree_locks: spin_unlock.  On
\* a lock the caller does not hold the unlock either leaves it or frees it.
ReleaseLock(c) ==
    /\ halted = "run"
    /\ pc[c] = "release"
    /\ LET f == frame[c]
           order == ReleaseLevels(f.end_power_level)
           node == f.parent_nodes[order[f.level]]
           lock == psci_non_cpu_nodes[node].lock_index
           held == psci_locks[lock] = c
           last == f.level >= Len(order)
       IN  /\ \E v \in (IF held THEN {NOBODY} ELSE {NOBODY, psci_locks[lock]}) :
                 psci_locks' = [psci_locks EXCEPT ![lock] = v]
           /\ call' = [call EXCEPT ![c].log = Append(@, <<"unlock", node, held>>),
                                   ![c].ret = IF last /\ (f.op = "finish" \/ f.skip_wfi)
                                              THEN <<PSCI_STATUS_SUCCESS>> ELSE @]
           /\ frame' = [frame EXCEPT ![c].level = @ + 1]
           /\ pc' = [pc EXCEPT ![c] =
                        IF ~last THEN "release"
                        ELSE IF f.op = "off" THEN "off_affinity"
                        ELSE IF f.op = "suspend" /\ ~f.skip_wfi THEN "suspend_wfi"
                        ELSE "ret"]
           \* hv_handle_psci_smc: ctx->regs[0] = retval, when suspend_cpu returns
           /\ regs' = [regs EXCEPT ![c].x0 =
                        IF last /\ (f.op = "finish" \/ (f.op = "suspend" /\ f.skip_wfi))
                        THEN IntToX(PSCI_STATUS_SUCCESS) ELSE @]
    /\ UNCHANGED << psci_num_cores, psci_cpu_nodes, psci_non_cpu_nodes,
                    psci_requested_local_power_states, psci_cpu_data_array, sctlr_c,
                    spintable, mmio, halted, calls >>
    /\ UNCHANGED << elr, bhl >>

(***************************************************************************)
(* hv_psci_coordinate_power_states.                                        *)
(***************************************************************************)
\* psci_requested_local_power_states[power_level - 1][index] as the pointer
\* arithmetic of the caller reads it: entries of columns that hold no core
\* keep the zero of static storage, and a read past column 23 continues in
\* the next row
RequestedAt(req, power_level, index) ==
    LET flat == (power_level - 1) * MAX_CPUS + index
        row  == (flat \div MAX_CPUS) + 1
        col  == flat % MAX_CPUS
    IN  IF row \in Levels /\ col < psci_num_cores THEN req[row][col] ELSE 0

\* a fold that reads one entry past the siblings
hv_psci_get_target_power_state_one_more(req, level, start_index, num_cpu_siblings) ==
    LET seen == { RequestedAt(req, level, start_index + k) : k \in 0..num_cpu_siblings }
                   \cup {PSCI_OFF_STATE}
    IN  CHOOSE m \in seen : \A x \in seen : m <= x

\* hv_psci_get_target_power_state: do { ... } while (siblings > 0), starting
\* from PSCI_OFF_STATE; it reads num_cpu_siblings entries (at least one)
hv_psci_get_target_power_state(req, level, start_index, num_cpu_siblings) ==
    LET n == IF num_cpu_siblings > 0 THEN num_cpu_siblings ELSE 1
        seen == { RequestedAt(req, level, start_index + k) : k \in 0..(n - 1) } \cup {PSCI_OFF_STATE}
    IN  CHOOSE m \in seen : \A x \in seen : m <= x

\* the sibling count the coordinator uses for the node parent_index:
\* psci_non_cpu_nodes->num_cpu_siblings, the count of element 0 of the array
CoordinatorSiblings(parent_index) == psci_non_cpu_nodes[0].num_cpu_siblings

\* one iteration of the first loop of hv_psci_coordinate_power_states
CoordLevel(c) ==
    /\ halted = "run"
    /\ pc[c] = "coord"
    /\ LET f == frame[c]
           level == f.level
           req1 == [psci_requested_local_power_states EXCEPT ![level][c] = f.state_info[level]]
           start_index == psci_non_cpu_nodes[f.parent_index].first_cpu_idx
           target_state == hv_psci_get_target_power_state(req1, level, start_index,
                               CoordinatorSiblings(f.parent_index))
           on == target_state = PSCI_ON_STATE
       IN  /\ psci_requested_local_power_states' = req1
           /\ frame' = [frame EXCEPT
                          ![c].state_info = [@ EXCEPT ![level] = target_state],
                          ![c].parent_index = IF on THEN @
                                              ELSE psci_non_cpu_nodes[f.parent_index].parent_node,
                          ![c].level = IF on THEN @ ELSE @ + 1]
           /\ pc' = [pc EXCEPT ![c] = IF on \/ level + 1 > f.end_power_level
                                      THEN "coord_rest" ELSE "coord"]
    /\ UNCHANGED << psci_num_cores, psci_cpu_nodes, psci_non_cpu_nodes, psci_locks,
                    psci_cpu_data_array, sctlr_c, spintable, mmio, halted, regs, call,
                    calls >>
    /\ UNCHANGED << elr, bhl >>

\* a second loop that votes ON at the levels it visits
RequestedOfRest_votes_on(req, cpu_index, state_info, rest) ==
    [l \in Levels |->
        IF l \in rest THEN [req[l] EXCEPT ![cpu_index] = PSCI_ON_STATE] ELSE req[l]]

\* the requested matrix after the second loop: hv_psci_set_requested_local_
\* power_state(level, cpu_index, current_state_info->power_domain_state[level])
\* at the levels of rest
RequestedOfRest(req, cpu_index, state_info, rest) ==
    [l \in Levels |->
        IF l \in rest THEN [req[l] EXCEPT ![cpu_index] = state_info[l]] ELSE req[l]]

\* the second loop: for (level = level + 1; level <= end_power_level; level++)
CoordRest(c) ==
    /\ halted = "run"
    /\ pc[c] = "coord_rest"
    /\ LET f == frame[c]
           rest == (f.level + 1) .. f.end_power_level
       IN  /\ psci_requested_local_power_states' =
                 RequestedOfRest(psci_requested_local_power_states, c, f.state_info, rest)
           /\ frame' = [frame EXCEPT
                          ![c].state_info = [i \in 0..PSCI_MAX_POWER_LEVEL |->
                                                IF i \in rest THEN PSCI_ON_STATE ELSE @[i]]]
           /\ pc' = [pc EXCEPT ![c] = "set_target_cpu"]
    /\ UNCHANGED << psci_num_cores, psci_cpu_nodes, psci_non_cpu_nodes, psci_locks,
                    psci_cpu_data_array, sctlr_c, spintable, mmio, halted, regs, call,
                    calls >>
    /\ UNCHANGED << elr, bhl >>

\* hv_psci_set_target_local_power_states: the CPU's own state
SetTargetCpu(c) ==
    /\ halted = "run"
    /\ pc[c] = "set_target_cpu"
    /\ psci_cpu_data_array' =
          hv_psci_set_cpu_local_state(psci_cpu_data_array, c,
                                      frame[c].state_info[PSCI_CPU_POWER_LEVEL])
    \* dc_civac_range(&psci_cpu_data_array[mrs(TPIDR_EL2)].local_cpu_state, ...)
    /\ call' = [call EXCEPT ![c].dirty =
                   dc_civac_range(@ \cup {"local_cpu_state"}, {"local_cpu_state"})]
    /\ frame' = [frame EXCEPT ![c].parent_index = psci_cpu_nodes[c], ![c].level = 1]
    /\ pc' = [pc EXCEPT ![c] = "set_target"]
    /\ UNCHANGED << psci_num_cores, psci_cpu_nodes, psci_non_cpu_nodes,
                    psci_requested_local_power_states, psci_locks, sctlr_c, spintable,
                    mmio, halted, regs, calls >>
    /\ UNCHANGED << elr, bhl >>

\* hv_psci_set_target_local_power_states: one iteration of its loop
SetTargetLevel(c) ==
    /\ halted = "run"
    /\ pc[c] = "set_target"
    /\ LET f == frame[c]
           last == f.level + 1 > f.end_power_level
       IN  /\ psci_non_cpu_nodes' = [psci_non_cpu_nodes EXCEPT
                                       ![f.parent_index].local_power_state = f.state_info[f.level]]
           \* hv_psci_set_non_cpu_power_domain_node_local_state: dc_civac_range
           \* of the node
           /\ call' = [call EXCEPT ![c].dirty =
                          dc_civac_range(@ \cup {<<"node", f.parent_index>>},
                                         {<<"node", f.parent_index>>})]
           /\ frame' = [frame EXCEPT
                          ![c].parent_index = psci_non_cpu_nodes[f.parent_index].parent_node,
                          ![c].level = IF last THEN 1 ELSE @ + 1]
           /\ pc' = [pc EXCEPT ![c] =
                        IF ~last THEN "set_target"
                        ELSE IF f.op = "off" THEN "off_maint"
                        ELSE IF f.is_power_down_state # 0 THEN "pd_prep"
                        ELSE "release"]
    /\ UNCHANGED << psci_num_cores, psci_cpu_nodes, psci_requested_local_power_states,
                    psci_locks, psci_cpu_data_array, sctlr_c, spintable, mmio, halted,
                    regs, calls >>
    /\ UNCHANGED << elr, bhl >>

(***************************************************************************)
(* hv_psci_turn_off_cpu.                                                   *)
(***************************************************************************)
\* case PSCI_CPU_OFF_FUNCTION_ID, up to hv_psci_get_parent_nodes
SmcCpuOff(c) ==
    /\ InGuest(c)
    /\ \E r \in Requests :
        /\ Trap(c, r, "turn_off_cpu")
        /\ regs' = [regs EXCEPT ![c] = r]
        /\ call' = [call EXCEPT ![c] = Called(r, "turn_off_cpu", <<>>)]
        /\ frame' = [frame EXCEPT ![c] =
                        NewFrame(c, "off", PSCI_MAX_POWER_LEVEL,
                                 hv_psci_construct_poweroff_state, 0)]
        /\ pc' = [pc EXCEPT ![c] = PcAfterParents("off", PSCI_MAX_POWER_LEVEL)]
        /\ UNCHANGED << psci_num_cores, psci_cpu_nodes, psci_state, halted >>

\* hv_psci_power_down_cpu_maintenance(hv_psci_find_max_off_level(...)):
\* clears SCTLR.C and cleans the data cache
OffMaintenance(c) ==
    /\ halted = "run"
    /\ pc[c] = "off_maint"
    /\ \E max_off_level \in hv_psci_find_max_off_level(frame[c].state_info) :
          sctlr_c' = [sctlr_c EXCEPT ![c] = 0]
    \* dcsw_op_all(DCSW_OP_DCISW)
    /\ call' = [call EXCEPT ![c].dirty = dc_ivac_range(@, @)]
    /\ frame' = [frame EXCEPT ![c].level = 1]
    /\ pc' = [pc EXCEPT ![c] = "release"]
    /\ UNCHANGED << psci_num_cores, psci_cpu_nodes, psci_non_cpu_nodes,
                    psci_requested_local_power_states, psci_locks, psci_cpu_data_array,
                    spintable, mmio, halted, regs, calls >>
    /\ UNCHANGED << elr, bhl >>

\* hv_psci_set_affinity_info_state(AFFINITY_STATE_OFF)
OffSetAffinity(c) ==
    /\ halted = "run"
    /\ pc[c] = "off_affinity"
    /\ psci_cpu_data_array' = [psci_cpu_data_array EXCEPT
                                 ![c].affinity_state = AFFINITY_STATE_OFF]
    \* dc_civac_range of affinity_state before the write, dc_ivac_range after it
    /\ call' = [call EXCEPT ![c].dirty =
                   dc_ivac_range(dc_civac_range(@, {"affinity_state"})
                                    \cup {"affinity_state"}, {"affinity_state"})]
    /\ pc' = [pc EXCEPT ![c] = "off_mmio"]
    /\ UNCHANGED << psci_num_cores, psci_cpu_nodes, psci_non_cpu_nodes,
                    psci_requested_local_power_states, psci_locks, sctlr_c, spintable,
                    mmio, halted, regs, frame, calls >>
    /\ UNCHANGED << elr, bhl >>

\* a + b of two 64-bit words, modulo 2^64
Add64(a, b) ==
    LET s4 == a[4] + b[4]
        s3 == a[3] + b[3] + (s4 \div 65536)
        s2 == a[2] + b[2] + (s3 \div 65536)
        s1 == a[1] + b[1] + (s2 \div 65536)
    IN  W64(s1 % 65536, s2 % 65536, s3 % 65536, s4 % 65536)

\* hv_psci.h: CPU_START_OFF_T8103 0x54000
CPU_START_OFF_T8103 == W64(0, 0, 5, 16384)

\* hv_psci_init: cpu_start_off of the T8103, T6000, T6001 and T6002
cpu_start_off == CPU_START_OFF_T8103

\* hv_psci_init: adt_pmgr_reg, the "reg" of /arm-io/pmgr (0x2_3B70_0000, a
\* 64-bit address above 4 GiB)
adt_pmgr_reg == W64(0, 2, 15216, 0)

\* die_num * PMGR_DIE_OFFSET, the stride being 0x20_0000_0000
DieOffset(die_num) == W64(0, (32 * die_num) % 65536, 0, 0)

\* hv_psci_turn_off_cpu: unsigned int cpu_start_addr_base = adt_pmgr_reg +
\* cpu_start_off; cpu_start_addr_base += die_num * PMGR_DIE_OFFSET;
cpu_start_addr_base(die_num) ==
    Lo32(Add64(Lo32(Add64(adt_pmgr_reg, cpu_start_off)), DieOffset(die_num)))

\* write32(cpu_start_addr_base, 1 << (4 * cluster_index + local_core)), then
\* cpu_sleep(true)
OffWriteMmio(c) ==
    /\ halted = "run"
    /\ pc[c] = "off_mmio"
    /\ LET d == psci_cpu_data_array[c]
       IN  mmio' = [mmio EXCEPT ![c] = Append(@,
                        [ die |-> d.die_index,
                          bit |-> 4 * d.cluster_index + d.local_core_number,
                          addr |-> cpu_start_addr_base(d.die_index),
                          value |-> 2 ^ (4 * d.cluster_index + d.local_core_number) ])]
    /\ pc' = [pc EXCEPT ![c] = "off_sleep"]
    /\ UNCHANGED << psci_num_cores, psci_cpu_nodes, psci_non_cpu_nodes,
                    psci_requested_local_power_states, psci_locks, psci_cpu_data_array,
                    sctlr_c, spintable, halted, regs, frame, call, calls >>
    /\ UNCHANGED << elr, bhl >>

\* the CPU leaves cpu_sleep ("left the WFI loop after CPU power off"):
\* hv_psci_turn_off_cpu returns retval and the case breaks without storing it
OffEscape(c) ==
    /\ halted = "run"
    /\ pc[c] = "off_sleep"
    /\ call' = [call EXCEPT ![c].ret = <<PSCI_STATUS_SUCCESS>>]
    /\ pc' = [pc EXCEPT ![c] = "ret"]
    /\ UNCHANGED << psci_num_cores, psci_cpu_nodes, psci_state, halted, regs, frame,
                    calls >>
    /\ UNCHANGED << elr, bhl >>

(***************************************************************************)
(* hv_psci_suspend_cpu.                                                    *)
(***************************************************************************)
\* hv_psci_validate_power_state fails: return retval
SmcSuspendInvalid(c) ==
    /\ InGuest(c)
    /\ \E r \in Requests :
        LET a == HandlerArgs("suspend_cpu", SmcArgs(r))
            v == hv_psci_validate_power_state(a[1], NoFrame.state_info)
        IN  /\ Trap(c, r, "suspend_cpu")
            /\ v.rc # PSCI_STATUS_SUCCESS
            /\ regs' = [regs EXCEPT ![c] = [r EXCEPT !.x0 = IntToX(v.rc)]]
            /\ call' = [call EXCEPT ![c] = Called(r, "suspend_cpu", <<v.rc>>)]
            /\ pc' = [pc EXCEPT ![c] = "ret"]
            /\ UNCHANGED << psci_num_cores, psci_cpu_nodes, psci_state, halted, frame >>

\* the power state is valid; the assertion on hv_psci_validate_suspend_request
\* fails (assert_fail: the machine stops), or the call goes on to the standby
\* fast path or to hv_psci_start_cpu_suspend
SmcSuspend(c) ==
    /\ InGuest(c)
    /\ \E r \in Requests :
        LET a == HandlerArgs("suspend_cpu", SmcArgs(r))
            v == hv_psci_validate_power_state(a[1], NoFrame.state_info)
            is_power_down_state == hv_psci_power_state_get_type(Lo32(a[1]))
            target_power_level == hv_psci_find_target_suspend_level(v.info)
        IN  /\ Trap(c, r, "suspend_cpu")
            /\ v.rc = PSCI_STATUS_SUCCESS
            /\ regs' = [regs EXCEPT ![c] = r]
            /\ \E max_power_off_level \in hv_psci_find_max_off_level(v.info) :
                 \/ /\ hv_psci_validate_suspend_request(v.info, is_power_down_state,
                            max_power_off_level) # PSCI_STATUS_SUCCESS
                    /\ halted' = "panic"
                    /\ call' = [call EXCEPT ![c] = Called(r, "suspend_cpu", <<>>)]
                    /\ UNCHANGED << psci_cpu_data_array, frame, pc >>
                 \/ /\ hv_psci_validate_suspend_request(v.info, is_power_down_state,
                            max_power_off_level) = PSCI_STATUS_SUCCESS
                    /\ hv_psci_is_cpu_standby_requested(is_power_down_state, target_power_level)
                    /\ psci_cpu_data_array' =
                          hv_psci_set_cpu_local_state(psci_cpu_data_array, c,
                                                      v.info[PSCI_CPU_POWER_LEVEL])
                    \* no cache maintenance between the write and the wfi
                    /\ call' = [call EXCEPT ![c] =
                          [Called(r, "suspend_cpu", <<>>) EXCEPT
                              !.dirty = {"local_cpu_state"}]]
                    /\ pc' = [pc EXCEPT ![c] = "standby_wfi"]
                    /\ UNCHANGED << halted, frame >>
                 \/ /\ hv_psci_validate_suspend_request(v.info, is_power_down_state,
                            max_power_off_level) = PSCI_STATUS_SUCCESS
                    /\ ~hv_psci_is_cpu_standby_requested(is_power_down_state, target_power_level)
                    /\ frame' = [frame EXCEPT ![c] =
                            NewFrame(c, "suspend", target_power_level, v.info,
                                     is_power_down_state)]
                    /\ call' = [call EXCEPT ![c] = Called(r, "suspend_cpu", <<>>)]
                    /\ pc' = [pc EXCEPT ![c] = PcAfterParents("suspend", target_power_level)]
                    /\ UNCHANGED << halted, psci_cpu_data_array >>
            /\ UNCHANGED << psci_num_cores, psci_cpu_nodes, psci_non_cpu_nodes,
                            psci_requested_local_power_states, psci_locks, sctlr_c,
                            spintable, mmio >>

\* the standby fast path after wfi: hv_psci_set_cpu_local_state(PSCI_ON_STATE),
\* return PSCI_STATUS_SUCCESS
StandbyWake(c) ==
    /\ halted = "run"
    /\ pc[c] = "standby_wfi"
    /\ psci_cpu_data_array' =
          hv_psci_set_cpu_local_state(psci_cpu_data_array, c, PSCI_ON_STATE)
    /\ regs' = [regs EXCEPT ![c].x0 = IntToX(PSCI_STATUS_SUCCESS)]
    \* no cache maintenance between the write and the return
    /\ call' = [call EXCEPT ![c].ret = <<PSCI_STATUS_SUCCESS>>,
                            ![c].dirty = @ \cup {"local_cpu_state"}]
    /\ pc' = [pc EXCEPT ![c] = "ret"]
    /\ UNCHANGED << psci_num_cores, psci_cpu_nodes, psci_non_cpu_nodes,
                    psci_requested_local_power_states, psci_locks, sctlr_c, spintable,
                    mmio, halted, frame, calls >>
    /\ UNCHANGED << elr, bhl >>

\* a check of the interrupt status that never stops the suspend
SkipWfi_never(isr) == FALSE

\* hv_psci_start_cpu_suspend: if (isr != 0) skip_wfi = true
SkipWfi(isr) == isr # 0

\* hv_psci_start_cpu_suspend: isr = mrs(ISR_EL1); if (isr != 0) goto exit_suspend
SuspendCheckIsr(c) ==
    /\ halted = "run"
    /\ pc[c] = "isr_check"
    /\ \E isr \in {0, 1} :
          /\ frame' = [frame EXCEPT ![c].isr = isr, ![c].skip_wfi = SkipWfi(isr),
                                    ![c].level = 1,
                                    ![c].parent_index = psci_cpu_nodes[c]]
          /\ pc' = [pc EXCEPT ![c] = IF SkipWfi(isr) THEN "release" ELSE "coord"]
    /\ UNCHANGED << psci_num_cores, psci_cpu_nodes, psci_state, halted, regs, call,
                    calls >>
    /\ UNCHANGED << elr, bhl >>

\* hv_psci_start_suspend_to_power_down
SuspendPowerDownPrep(c) ==
    /\ halted = "run"
    /\ pc[c] = "pd_prep"
    /\ \E max_off_level \in hv_psci_find_max_off_level(frame[c].state_info) :
          /\ psci_cpu_data_array' = [psci_cpu_data_array EXCEPT
                                       ![c].target_power_level = frame[c].end_power_level]
          /\ sctlr_c' = [sctlr_c EXCEPT ![c] = 0]
    \* dc_civac_range((void *)ptr_of_target_power_level, ...): the address is
    \* the value of target_power_level, its range covers no field; then
    \* hv_psci_power_down_cpu_maintenance: dcsw_op_all(DCSW_OP_DCISW)
    /\ call' = [call EXCEPT ![c].dirty =
                   dc_ivac_range(dc_civac_range(@ \cup {"target_power_level"}, {}),
                                 PerCpuFields)]
    /\ frame' = [frame EXCEPT ![c].level = 1]
    /\ pc' = [pc EXCEPT ![c] = "release"]
    /\ UNCHANGED << psci_num_cores, psci_cpu_nodes, psci_non_cpu_nodes,
                    psci_requested_local_power_states, psci_locks, spintable, mmio,
                    halted, regs, calls >>
    /\ UNCHANGED << elr, bhl >>

\* the CPU wakes from the wfi of hv_psci_start_cpu_suspend and enters
\* hv_psci_finish_cpu_suspend
SuspendWake(c) ==
    /\ halted = "run"
    /\ pc[c] = "suspend_wfi"
    /\ LET f == frame[c]
       IN  /\ frame' = [frame EXCEPT ![c] =
                          [NewFrame(c, "finish", f.end_power_level, f.state_info,
                                    f.is_power_down_state)
                              EXCEPT !.sctlr_old = f.sctlr_old]]
           /\ pc' = [pc EXCEPT ![c] = PcAfterParents("finish", f.end_power_level)]
    /\ call' = [call EXCEPT ![c].log = <<>>]
    /\ UNCHANGED << psci_num_cores, psci_cpu_nodes, psci_state, halted, regs, calls >>
    /\ UNCHANGED << elr, bhl >>

\* hv_psci_get_target_local_power_states
FinishGetTarget(c) ==
    /\ halted = "run"
    /\ pc[c] = "get_target"
    /\ LET f == frame[c]
       IN  frame' = [frame EXCEPT
                       ![c].state_info = [i \in 0..PSCI_MAX_POWER_LEVEL |->
                            IF i = PSCI_CPU_POWER_LEVEL
                            THEN psci_cpu_data_array[c].local_cpu_state
                            ELSE IF i <= f.end_power_level
                            THEN psci_non_cpu_nodes[f.parent_nodes[i]].local_power_state
                            ELSE PSCI_ON_STATE],
                       ![c].parent_index = psci_cpu_nodes[c],
                       ![c].level = 1]
    /\ pc' = [pc EXCEPT ![c] = "set_on"]
    /\ UNCHANGED << psci_num_cores, psci_cpu_nodes, psci_state, halted, regs, call,
                    calls >>
    /\ UNCHANGED << elr, bhl >>

\* hv_psci_set_power_domains_to_on_state: one iteration of its loop
SetOnLevel(c) ==
    /\ halted = "run"
    /\ pc[c] = "set_on"
    /\ LET f == frame[c]
       IN  /\ psci_non_cpu_nodes' = [psci_non_cpu_nodes EXCEPT
                                       ![f.parent_index].local_power_state = PSCI_ON_STATE]
           /\ psci_requested_local_power_states' =
                 [psci_requested_local_power_states EXCEPT ![f.level][c] = PSCI_ON_STATE]
           \* hv_psci_set_non_cpu_power_domain_node_local_state: dc_civac_range
           \* of the node
           /\ call' = [call EXCEPT ![c].dirty =
                          dc_civac_range(@ \cup {<<"node", f.parent_index>>},
                                         {<<"node", f.parent_index>>})]
           /\ frame' = [frame EXCEPT
                          ![c].parent_index = psci_non_cpu_nodes[f.parent_index].parent_node,
                          ![c].level = @ + 1]
           /\ pc' = [pc EXCEPT ![c] = IF f.level + 1 > f.end_power_level
                                      THEN "set_on_cpu" ELSE "set_on"]
    /\ UNCHANGED << psci_num_cores, psci_cpu_nodes, psci_locks, psci_cpu_data_array,
                    sctlr_c, spintable, mmio, halted, regs, calls >>
    /\ UNCHANGED << elr, bhl >>

\* hv_psci_set_power_domains_to_on_state: affinity state and local state
SetOnCpu(c) ==
    /\ halted = "run"
    /\ pc[c] = "set_on_cpu"
    /\ psci_cpu_data_array' =
          hv_psci_set_cpu_local_state(
              [psci_cpu_data_array EXCEPT ![c].affinity_state = AFFINITY_STATE_ON],
              c, PSCI_ON_STATE)
    \* dc_civac_range(&psci_cpu_data_array, sizeof(psci_cpu_data_array))
    /\ call' = [call EXCEPT ![c].dirty =
                   dc_civac_range(@ \cup {"affinity_state", "local_cpu_state"},
                                  PerCpuFields)]
    /\ frame' = [frame EXCEPT ![c].level = 1]
    /\ pc' = [pc EXCEPT ![c] = "release"]
    /\ UNCHANGED << psci_num_cores, psci_cpu_nodes, psci_non_cpu_nodes,
                    psci_requested_local_power_states, psci_locks, sctlr_c, spintable,
                    mmio, halted, regs, calls >>
    /\ UNCHANGED << elr, bhl >>

Next ==
    \/ \E c \in Cpus : SmcVersion(c)
    \/ \E c \in Cpus : SmcStateless(c)
    \/ \E c \in Cpus : SmcDefault(c)
    \/ \E c \in Cpus : SmcNoCase(c)
    \/ \E c \in Cpus : SmcSystem(c)
    \/ \E c \in Cpus : HvExcSyncReturn(c)
    \/ \E c \in Cpus : hv_psci_turn_on_cpu(c)
    \/ \E c \in Cpus : SecondaryStart(c)
    \/ \E c \in Cpus : AcquireLock(c)
    \/ \E c \in Cpus : ReleaseLock(c)
    \/ \E c \in Cpus : CoordLevel(c)
    \/ \E c \in Cpus : CoordRest(c)
    \/ \E c \in Cpus : SetTargetCpu(c)
    \/ \E c \in Cpus : SetTargetLevel(c)
    \/ \E c \in Cpus : SmcCpuOff(c)
    \/ \E c \in Cpus : OffMaintenance(c)
    \/ \E c \in Cpus : OffSetAffinity(c)
    \/ \E c \in Cpus : OffWriteMmio(c)
    \/ \E c \in Cpus : OffEscape(c)
    \/ \E c \in Cpus : SmcSuspendInvalid(c)
    \/ \E c \in Cpus : SmcSuspend(c)
    \/ \E c \in Cpus : StandbyWake(c)
    \/ \E c \in Cpus : SuspendCheckIsr(c)
    \/ \E c \in Cpus : SuspendPowerDownPrep(c)
    \/ \E c \in Cpus : SuspendWake(c)
    \/ \E c \in Cpus : FinishGetTarget(c)
    \/ \E c \in Cpus : SetOnLevel(c)
    \/ \E c \in Cpus : SetOnCpu(c)

Spec == Init /\ [][Next]_vars

(***************************************************************************)
(* Properties of the coordinator and of the tree locks.                    *)
(***************************************************************************)
\* the CPUs whose chain of parents contains the non-CPU node n
CpusUnder(n) ==
    { k \in Cpus :
        \E l \in Levels :
            hv_psci_get_parent_nodes(psci_cpu_nodes, psci_non_cpu_nodes, k,
                                     PSCI_MAX_POWER_LEVEL)[l] = n }

MinOf(S) == CHOOSE m \in S : \A x \in S : m <= x

\* CPU c leaves hv_psci_set_target_local_power_states: its coordination is complete
CoordinationCompletes(c) == pc[c] = "set_target" /\ pc'[c] # "set_target"

\* C1: when a coordination completes (called from cpu_off or from the slow
\* path of cpu_suspend), the local_power_state of every non-CPU node on the
\* caller's path up to end_level is the minimum of the requested states, at
\* the node's level, of exactly the CPUs under the node.
C1_CoordinatedStateIsMinimum ==
    [][\A c \in Cpus :
         CoordinationCompletes(c) =>
            \A l \in 1..frame[c].end_power_level :
               LET n == frame[c].parent_nodes[l]
               IN  psci_non_cpu_nodes'[n].local_power_state =
                     MinOf({ psci_requested_local_power_states'[l][k] : k \in CpusUnder(n) })]_vars

\* CPU k executes guest code and has not completed a cpu_off (it never made
\* the power-down write of hv_psci_turn_off_cpu)
ExecutesGuestCode(k) == pc[k] = "guest" /\ mmio[k] = <<>>

\* C2: no cluster node has local_power_state OFF while a CPU under it
\* executes guest code (the boot CPU, or a CPU released by cpu_on, that has
\* not since completed cpu_off).
C2_NoClusterOffUnderRunningCpu ==
    \A k \in Cpus :
        ExecutesGuestCode(k) =>
            psci_non_cpu_nodes[psci_cpu_nodes[k]].local_power_state # PSCI_OFF_STATE

\* the non-CPU nodes whose requested entries or local_power_state the next
\* step of CPU c reads or writes
AccessedNodes(c) ==
    LET f == frame[c]
    IN  CASE pc[c] \in {"coord", "set_target", "set_on"} -> {f.parent_index}
          [] pc[c] = "coord_rest" ->
                { f.parent_nodes[l] : l \in (f.level + 1)..f.end_power_level }
          [] pc[c] = "get_target" -> { f.parent_nodes[l] : l \in 1..f.end_power_level }
          [] OTHER -> {}

\* C3: a CPU that reads or writes the requested entries or the
\* local_power_state of a non-CPU node during cpu_off, start_cpu_suspend or
\* finish_cpu_suspend holds the node's lock, and so no two CPUs work on the
\* same non-CPU node at the same time.
C3_AccessUnderNodeLock ==
    /\ \A c \in Cpus : \A n \in AccessedNodes(c) :
          psci_locks[psci_non_cpu_nodes[n].lock_index] = c
    /\ \A c \in Cpus, d \in Cpus :
          c # d => AccessedNodes(c) \cap AccessedNodes(d) = {}

\* the nodes of the entries of kind k in the lock log of a call, in order
LoggedNodes(log, k) ==
    LET picked == SelectSeq(log, LAMBDA e : e[1] = k)
    IN  [i \in 1..Len(picked) |-> picked[i][2]]

Reverse(q) == [i \in 1..Len(q) |-> q[Len(q) + 1 - i]]

\* CPU c is past hv_psci_release_power_domain_tree_locks
PastRelease(c) ==
    pc[c] \in {"off_affinity", "off_mmio", "off_sleep", "suspend_wfi", "ret"}

\* C4: the release loop unlocks exactly the node locks the acquire loop
\* locked, in the reverse order, and no CPU unlocks a node lock it does not
\* hold.
C4_ReleaseMirrorsAcquire ==
    \A c \in Cpus :
        /\ \A i \in 1..Len(call[c].log) :
              call[c].log[i][1] = "unlock" => call[c].log[i][3]
        /\ PastRelease(c) =>
              LoggedNodes(call[c].log, "unlock") = Reverse(LoggedNodes(call[c].log, "lock"))

\* CPU c spins in hv_psci_get_lock
WaitsForLock(c) == halted = "run" /\ pc[c] = "acquire"

\* the lock CPU c spins on
WantedLock(c) ==
    LET f == frame[c]
    IN  psci_non_cpu_nodes[f.parent_nodes[AcquireLevels(f.end_power_level)[f.level]]].lock_index

\* CPU c is between the acquire loop and the end of the release loop
InLockedRegion(c) ==
    pc[c] \in { "acquire", "isr_check", "coord", "coord_rest", "set_target_cpu",
                "set_target", "off_maint", "pd_prep", "get_target", "set_on",
                "set_on_cpu", "release" }

C6_X0IsReturnCode ==
    \A c \in Cpus :
        (pc[c] = "ret" /\ call[c].ret # <<>>) => regs[c].x0 = IntToX(call[c].ret[1])

\* CPU c executes SMC in this step
Traps(c) == call[c].handler = "none" /\ call'[c].handler # "none"

\* the function IDs of the dispatch table
DispatchTable ==
    { PSCI_GET_VERSION_FUNCTION_ID, PSCI_SUSPEND_CPU_ARM32_FUNCTION_ID,
      PSCI_SUSPEND_CPU_ARM64_FUNCTION_ID, PSCI_CPU_OFF_FUNCTION_ID,
      PSCI_CPU_ON_ARM32_FUNCTION_ID, PSCI_CPU_ON_ARM64_FUNCTION_ID,
      PSCI_AFFINITY_INFO_ARM32_FUNCTION_ID, PSCI_AFFINITY_INFO_ARM64_FUNCTION_ID,
      PSCI_SYSTEM_POWEROFF_FUNCTION_ID, PSCI_SYSTEM_RESET_FUNCTION_ID,
      PSCI_FEATURES_FUNCTION_ID, PSCI_MEM_PROTECT_FUNCTION_ID,
      PSCI_MEM_CHECK_RANGE_ARM32_FUNCTION_ID, PSCI_MEM_CHECK_RANGE_ARM64_FUNCTION_ID }

\* C7: for an X0 that is no function ID of the dispatch table, SMC32 or
\* SMC64, the dispatcher writes NOT_SUPPORTED into X0 and changes no PSCI
\* state.
C7_UnknownIdNotSupported ==
    [][\A c \in Cpus :
         (Traps(c) /\ call'[c].fid \notin DispatchTable) =>
            /\ regs'[c].x0 = IntToX(PSCI_STATUS_NOT_SUPPORTED)
            /\ psci_state' = psci_state]_vars

\* the CPU whose MPIDR is x1
AddressedCpu(x1) == CHOOSE k \in Cpus : MpidrOf(k) = x1

\* C8: AFFINITY_INFO, in both forms, returns in X0 the affinity_state of the
\* CPU that X1 addresses.
C8_AffinityInfoReturnsState ==
    [][\A c \in Cpus :
         (Traps(c) /\ call'[c].fid \in { PSCI_AFFINITY_INFO_ARM32_FUNCTION_ID,
                                         PSCI_AFFINITY_INFO_ARM64_FUNCTION_ID }) =>
            regs'[c].x0 =
               IntToX(psci_cpu_data_array[AddressedCpu(regs'[c].x1)].affinity_state)]_vars

\* the function IDs that have an SMC64 form with a case of its own
Smc64Ids ==
    { PSCI_SUSPEND_CPU_ARM64_FUNCTION_ID, PSCI_CPU_ON_ARM64_FUNCTION_ID,
      PSCI_MEM_CHECK_RANGE_ARM64_FUNCTION_ID }

\* the function ID with bit 30 cleared
Smc32FormOf(x0) == W64(x0[1], x0[2], x0[3] - 16384, x0[4])

\* C9, as stated: the SMC64 form of CPU_SUSPEND, CPU_ON and MEM_CHECK_RANGE
\* invokes the handler of the SMC32 form and passes it X1, X2 and X3 as full
\* 64-bit values.
C9_Smc64PassesX1X2X3 ==
    [][\A c \in Cpus :
         (Traps(c) /\ call'[c].fid \in Smc64Ids) =>
            /\ call'[c].handler = SmcCase(Smc32FormOf(call'[c].fid))
            /\ call'[c].args = << regs'[c].x1, regs'[c].x2, regs'[c].x3 >>]_vars

\* C9, amended: the SMC64 form invokes the handler of the SMC32 form;
\* CPU_SUSPEND and CPU_ON receive X1, X2, X3 and MEM_CHECK_RANGE, whose
\* handler has two parameters, receives X1, X2, all as full 64-bit values;
\* a successful CPU_ON stores all 64 bits of X2 in the release slot.
C9_Smc64PassesFullWidth ==
    [][\A c \in Cpus :
         (Traps(c) /\ call'[c].fid \in Smc64Ids) =>
            LET h == call'[c].handler
                r == regs'[c]
            IN  /\ h = SmcCase(Smc32FormOf(call'[c].fid))
                /\ call'[c].args = IF h = "mem_protect_check_range"
                                   THEN << r.x1, r.x2 >>
                                   ELSE << r.x1, r.x2, r.x3 >>
                /\ (h = "turn_on_cpu" /\ pc'[c] = "ret") =>
                      \E k \in DOMAIN spintable' : spintable'[k] = r.x2]_vars

\* an SMC64 CPU_ON whose X2 has bits above bit 31 has returned and the
\* release slot holds all of X2
C9_Witness ==
    \E c \in Cpus :
        /\ pc[c] = "ret"
        /\ call[c].fid = PSCI_CPU_ON_ARM64_FUNCTION_ID
        /\ regs[c].x2 # Lo32(regs[c].x2)
        /\ call[c].args[2] = regs[c].x2
        /\ \E k \in DOMAIN spintable : spintable[k] = regs[c].x2

\* C10: the handler of an SMC32 call receives X1, X2, X3 truncated to their
\* low 32 bits, so the upper halves do not reach the result or the PSCI
\* state: CPU_ON stores the low half of X2 in the release slot, CPU_SUSPEND
\* validates the low half of X1.
C10_Smc32TruncatesArguments ==
    [][\A c \in Cpus :
         (Traps(c) /\ SMC_64_FUNCTION(call'[c].fid) = 0 /\ call'[c].args # <<>>) =>
            LET h == call'[c].handler
                r == regs'[c]
                low == << Lo32(r.x1), Lo32(r.x2), Lo32(r.x3) >>
            IN  /\ call'[c].args = HandlerArgs(h, low)
                /\ (h = "turn_on_cpu" /\ pc'[c] = "ret") =>
                      \E k \in DOMAIN spintable' : spintable'[k] = Lo32(r.x2)
                /\ (h = "suspend_cpu" /\ pc'[c] = "ret") =>
                      call'[c].ret =
                         << hv_psci_validate_power_state(Lo32(r.x1), NoFrame.state_info).rc >>]_vars

\* an SMC32 CPU_ON whose X2 has bits above bit 31 has returned and the
\* release slot holds the low half of X2
C10_Witness ==
    \E c \in Cpus :
        /\ pc[c] = "ret"
        /\ call[c].fid = PSCI_CPU_ON_ARM32_FUNCTION_ID
        /\ regs[c].x2 # Lo32(regs[c].x2)
        /\ call[c].args[2] = Lo32(regs[c].x2)
        /\ \E k \in DOMAIN spintable : spintable[k] = Lo32(regs[c].x2)

(***************************************************************************)
(* Properties of the exception path (hv_exc_sync).                         *)
(***************************************************************************)
\* C11: PSCI_VERSION returns 0x00010001 in X0 in every state and on every
\* CPU, and changes no PSCI state.
C11_VersionIs_1_1 ==
    [][\A c \in Cpus :
         (Traps(c) /\ call'[c].fid = PSCI_GET_VERSION_FUNCTION_ID) =>
            /\ regs'[c].x0 = W64(0, 0, 1, 1)
            /\ pc'[c] = "ret"
            /\ psci_state' = psci_state]_vars

\* a secondary CPU has asked for the version while another CPU is switched
\* off, and got 1.1
C11_Witness ==
    \E c \in Cpus, d \in Cpus :
        /\ c # BootCpu /\ d # c
        /\ pc[c] = "ret" /\ call[c].handler = "version"
        /\ regs[c].x0 = W64(0, 0, 1, 1)
        /\ pc[d] = "off_sleep"

\* C12: for every SMC the dispatcher handles, ELR is advanced by exactly 4,
\* exactly once, before control returns to the guest: it stays at the SMC
\* instruction while the handler runs and is that address plus 4 at the
\* return.
C12_ElrAdvancedOnce ==
    [][\A c \in Cpus :
         /\ (call[c].handler # "none" /\ call'[c].handler # "none") => elr'[c] = elr[c]
         /\ (pc[c] # "guest" /\ pc'[c] = "guest" /\ call[c].handler # "none") =>
               elr[c] = SmcInsn /\ elr'[c] = SmcInsn + 4]_vars

\* a CPU is back in the guest after a call, past its SMC instruction
C12_Witness ==
    \E c \in Cpus : pc[c] = "guest" /\ elr[c] = SmcInsn + 4 /\ calls > 0

\* C13: handling a trapped SMC never takes or releases bhl: a CPU inside a
\* PSCI handler, in particular one blocked in WFI or spinning on a node
\* lock, never holds it.
C13_SmcNeverHoldsBhl ==
    \A c \in Cpus : call[c].handler # "none" => (bhl # c /\ bhl = NOBODY)

\* one CPU is blocked in the WFI of a PSCI call while another CPU is inside
\* the dispatcher
C13_Witness ==
    \E c \in Cpus, d \in Cpus :
        /\ c # d
        /\ pc[c] \in {"suspend_wfi", "standby_wfi", "off_sleep"}
        /\ call[d].handler # "none"
        /\ bhl = NOBODY

(***************************************************************************)
(* Properties of CPU_SUSPEND.                                              *)
(***************************************************************************)
\* the encodings of valid_idle_states: 0x1, 0x11, 0x40000222
WhitelistedEncodings == { W64(0, 0, 0, 1), W64(0, 0, 0, 17), W64(0, 0, 16384, 546) }

\* bits 31, 29, 28 (mask 0xB0000000) of a 32-bit power_state
ReservedBitSet(ps) == BitOf(ps, 31) = 1 \/ BitOf(ps, 29) = 1 \/ BitOf(ps, 28) = 1

\* CPU c traps into CPU_SUSPEND in this step
TrapsSuspend(c) == Traps(c) /\ call'[c].handler = "suspend_cpu"

\* what the claims call the coordination state: requested matrix, node
\* states, locks and the affinity state of every CPU
AffinityStates == [k \in Cpus |-> psci_cpu_data_array[k].affinity_state]
CoordinationState ==
    << psci_requested_local_power_states, psci_non_cpu_nodes, psci_locks, AffinityStates >>

\* C14: a 32-bit power_state with a reserved bit set, or one that is not a
\* whitelisted encoding (0 and 0xF among them), makes CPU_SUSPEND return
\* INVALID_PARAMETERS at once: no WFI, no lock, no change of per-CPU data,
\* requested entries or node states.
C14_InvalidPowerStateRejected ==
    [][\A c \in Cpus :
         (/\ TrapsSuspend(c)
          /\ (ReservedBitSet(Lo32(regs'[c].x1))
                \/ Lo32(regs'[c].x1) \notin WhitelistedEncodings)) =>
            /\ regs'[c].x0 = IntToX(PSCI_STATUS_INVALID_PARAMETERS)
            /\ pc'[c] = "ret"
            /\ call'[c].log = <<>>
            /\ psci_state' = psci_state]_vars

\* power_state 0xF has been rejected with -2
C14_Witness ==
    \E c \in Cpus :
        /\ pc[c] = "ret" /\ call[c].handler = "suspend_cpu"
        /\ call[c].args[1] = W64(0, 0, 0, 15)
        /\ regs[c].x0 = IntToX(-2)

\* C15: SMC64 CPU_SUSPEND validates X1 as a 64-bit value: every X1 that is
\* not a whitelisted encoding is rejected with INVALID_PARAMETERS, also one
\* whose low half is whitelisted and whose upper half is not zero.
C15_Smc64PowerStateFullWidth ==
    [][\A c \in Cpus :
         (/\ TrapsSuspend(c)
          /\ call'[c].fid = PSCI_SUSPEND_CPU_ARM64_FUNCTION_ID
          /\ regs'[c].x1 \notin WhitelistedEncodings) =>
            /\ regs'[c].x0 = IntToX(PSCI_STATUS_INVALID_PARAMETERS)
            /\ pc'[c] = "ret"]_vars

\* the CPU-standby request: level 0 = IDLE_STANDBY, type standby
StandbyEncoding == W64(0, 0, 0, 1)

\* C16: the whitelisted CPU-standby request keeps the caller's
\* local_cpu_state at IDLE_STANDBY while the CPU is in WFI and sets it to ON
\* after the wake, returns SUCCESS, and neither step changes the requested
\* matrix, a non-CPU local_power_state, an affinity state or a lock.
C16_StandbyRoundTrip ==
    [][\A c \in Cpus :
         /\ (TrapsSuspend(c) /\ Lo32(regs'[c].x1) = StandbyEncoding) =>
               /\ pc'[c] = "standby_wfi"
               /\ CoordinationState' = CoordinationState
         /\ pc'[c] = "standby_wfi" =>
               psci_cpu_data_array'[c].local_cpu_state = PSCI_IDLE_STANDBY_STATE
         /\ (pc[c] = "standby_wfi" /\ pc'[c] # "standby_wfi") =>
               /\ pc'[c] = "ret"
               /\ psci_cpu_data_array'[c].local_cpu_state = PSCI_ON_STATE
               /\ regs'[c].x0 = IntToX(PSCI_STATUS_SUCCESS)
               /\ CoordinationState' = CoordinationState]_vars

\* a standby request has returned after its WFI
C16_Witness ==
    \E c \in Cpus :
        /\ pc[c] = "ret" /\ call[c].handler = "suspend_cpu"
        /\ Lo32(regs[c].x1) = StandbyEncoding
        /\ regs[c].x0 = IntToX(0)
        /\ psci_cpu_data_array[c].local_cpu_state = PSCI_ON_STATE

\* CPU c takes a step of its own in this transition
StepOf(c) == pc'[c] # pc[c] \/ frame'[c] # frame[c] \/ call'[c] # call[c]

\* what a cancelled suspend of CPU c must leave alone: the requested matrix,
\* every local_power_state, the per-CPU data of c and its data-cache enable
SuspendFootprint(c) ==
    << psci_requested_local_power_states,
       [n \in DOMAIN psci_non_cpu_nodes |-> psci_non_cpu_nodes[n].local_power_state],
       psci_cpu_data_array[c], sctlr_c[c] >>

\* CPU c is in hv_psci_start_cpu_suspend, before or at the read of ISR_EL1
BeforeIsrCheck(c) == frame[c].op = "suspend" /\ pc[c] \in {"acquire", "isr_check"}

\* CPU c is in hv_psci_start_cpu_suspend and has read a non-zero ISR_EL1
SawPendingInterrupt(c) == frame[c].op = "suspend" /\ frame[c].isr # 0

\* C17: a slow-path CPU_SUSPEND that reads a non-zero interrupt status
\* returns SUCCESS without a WFI, holding none of the locks it took, and no
\* step of the call up to its return changes the requested matrix, a
\* local_power_state, the caller's local_cpu_state, affinity_state or
\* target level, or its data-cache enable.
C17_PendingInterruptCancels ==
    [][\A c \in Cpus :
         /\ (StepOf(c) /\ (BeforeIsrCheck(c)' \/ SawPendingInterrupt(c)')) =>
               SuspendFootprint(c)' = SuspendFootprint(c)
         /\ SawPendingInterrupt(c)' => pc'[c] \in {"release", "ret"}
         /\ (SawPendingInterrupt(c)' /\ pc'[c] = "ret") =>
               /\ regs'[c].x0 = IntToX(PSCI_STATUS_SUCCESS)
               /\ \A l \in DOMAIN psci_locks : psci_locks'[l] # c]_vars

\* a power-down suspend to level 2 took the cluster lock, saw a pending
\* interrupt and has returned SUCCESS
C17_Witness ==
    \E c \in Cpus :
        /\ pc[c] = "ret" /\ SawPendingInterrupt(c)
        /\ frame[c].end_power_level = 2
        /\ \E i \in 1..Len(call[c].log) : call[c].log[i][1] = "lock"
        /\ regs[c].x0 = IntToX(0)

\* the ancestor of CPU c at level l (l >= 1), by the parent links
RECURSIVE AncestorAt(_, _)
AncestorAt(c, l) ==
    IF l = 1 THEN psci_cpu_nodes[c]
    ELSE psci_non_cpu_nodes[AncestorAt(c, l - 1)].parent_node

\* CPU c and its power domains up to end_level are ON
OnUpTo(c, end_level) ==
    /\ psci_cpu_data_array[c].affinity_state = AFFINITY_STATE_ON
    /\ psci_cpu_data_array[c].local_cpu_state = PSCI_ON_STATE
    /\ \A l \in 1..end_level :
          /\ psci_requested_local_power_states[l][c] = PSCI_ON_STATE
          /\ psci_non_cpu_nodes[AncestorAt(c, l)].local_power_state = PSCI_ON_STATE

\* C18: when a slow-path CPU_SUSPEND that executed WFI returns, the calling
\* CPU has affinity_state ON and local_cpu_state ON, and at every level l in
\* 1..end_level its requested entry is ON and its ancestor node is ON.
C18_OnAfterSuspendWake ==
    [][\A c \in Cpus :
         (/\ call[c].handler = "suspend_cpu"
          /\ frame[c].op = "finish"
          /\ pc[c] # "ret" /\ pc'[c] = "ret") =>
            OnUpTo(c, frame[c].end_power_level)']_vars

(***************************************************************************)
(* Properties of CPU_OFF.                                                  *)
(***************************************************************************)
\* the per-CPU data and the requested entries of the CPUs other than c
OthersData(c) ==
    << [d \in Cpus \ {c} |-> psci_cpu_data_array[d]],
       [l \in Levels |-> [d \in Cpus \ {c} |-> psci_requested_local_power_states[l][d]]] >>

\* C20: when a CPU that executes cpu_off enters deep sleep its affinity_state
\* is OFF, its local_cpu_state is OFF and its requested entry is OFF at every
\* level 1..MAX_LEVEL; no step of the call changes the per-CPU data or a
\* requested entry of another CPU.
C20_CpuOffFootprint ==
    [][\A c \in Cpus :
         /\ (pc[c] # "off_sleep" /\ pc'[c] = "off_sleep") =>
               /\ psci_cpu_data_array'[c].affinity_state = AFFINITY_STATE_OFF
               /\ psci_cpu_data_array'[c].local_cpu_state = PSCI_OFF_STATE
               /\ \A l \in Levels :
                     psci_requested_local_power_states'[l][c] = PSCI_OFF_STATE
         /\ (StepOf(c) /\ call'[c].handler = "turn_off_cpu") =>
               OthersData(c)' = OthersData(c)]_vars

\* a CPU is in deep sleep after cpu_off while another one is running
C20_Witness ==
    \E c, d \in Cpus :
        /\ c # d
        /\ pc[c] = "off_sleep" /\ call[c].handler = "turn_off_cpu"
        /\ psci_cpu_data_array[c].affinity_state = AFFINITY_STATE_OFF
        /\ psci_cpu_data_array[d].affinity_state = AFFINITY_STATE_ON

(***************************************************************************)
(* Progress of CPU_SUSPEND.                                                *)
(***************************************************************************)
\* the CPU numbers of the largest tree descriptor
CpuNumbers == 0 .. 1

\* a step CPU c takes inside the hypervisor once it has trapped, its wake-up
\* from a WFI of CPU_SUSPEND included; the guest's next SMC and the escape
\* from the deep sleep of cpu_off are not among them
HypervisorStep(c) ==
    /\ c \in Cpus
    /\ \/ HvExcSyncReturn(c)
       \/ AcquireLock(c) \/ ReleaseLock(c)
       \/ CoordLevel(c) \/ CoordRest(c) \/ SetTargetCpu(c) \/ SetTargetLevel(c)
       \/ OffMaintenance(c) \/ OffSetAffinity(c) \/ OffWriteMmio(c)
       \/ StandbyWake(c)
       \/ SuspendCheckIsr(c) \/ SuspendPowerDownPrep(c) \/ SuspendWake(c)
       \/ FinishGetTarget(c) \/ SetOnLevel(c) \/ SetOnCpu(c)

\* every CPU keeps executing, and every WFI of CPU_SUSPEND is woken
FairSpec == Spec /\ \A c \in CpuNumbers : WF_vars(HypervisorStep(c))

\* CPU c is in a CPU_SUSPEND call whose power_state is whitelisted
InWhitelistedSuspend(c) ==
    /\ c \in Cpus
    /\ call[c].handler = "suspend_cpu"
    /\ regs[c].x1 \in WhitelistedEncodings

\* the CPU_SUSPEND call of CPU c has returned SUCCESS
SuspendReturnedSuccess(c) ==
    /\ c \in Cpus
    /\ pc[c] = "ret"
    /\ call[c].handler = "suspend_cpu"
    /\ regs[c].x0 = IntToX(PSCI_STATUS_SUCCESS)

\* another CPU has powered off or reset the system
SystemStopped == halted \in {"turn_off_system", "reset_system"}

\* C19: under fair scheduling of the CPUs and with a wake-up for every WFI,
\* every CPU_SUSPEND call with a whitelisted power_state eventually returns
\* SUCCESS to the guest (unless the system is powered off or reset first).
C19_SuspendEventuallyReturns ==
    \A c \in CpuNumbers :
        InWhitelistedSuspend(c) ~> (SuspendReturnedSuccess(c) \/ SystemStopped)

\* pmgr_base + cpu_start_offset + die_index * die_stride, in 64 bits
FullWidthStartAddress(c) ==
    Add64(Add64(adt_pmgr_reg, cpu_start_off), DieOffset(psci_cpu_data_array[c].die_index))

\* CPU c enters the deep sleep of cpu_off in this step
EntersDeepSleep(c) == pc[c] # "off_sleep" /\ pc'[c] = "off_sleep"

\* C21: cpu_off performs exactly one MMIO write before sleeping, to the
\* full-width address pmgr_base + cpu_start_offset + die_index * die_stride,
\* with the value 1 << (4 * cluster_index + local_core_number) of the calling
\* CPU's own per-CPU data.
C21_CpuStartWrite ==
    [][\A c \in Cpus :
         /\ EntersDeepSleep(c) =>
               /\ Len(mmio'[c]) = Len(mmio[c]) + 1
               /\ LET w == mmio'[c][Len(mmio'[c])]
                      d == psci_cpu_data_array[c]
                  IN  /\ w.addr = FullWidthStartAddress(c)
                      /\ w.value = 2 ^ (4 * d.cluster_index + d.local_core_number)
         /\ (StepOf(c) /\ call'[c].handler = "turn_off_cpu" /\ ~EntersDeepSleep(c)) =>
               mmio' = mmio]_vars

(***************************************************************************)
(* Properties of CPU_ON.                                                   *)
(***************************************************************************)
\* CPU c traps into CPU_ON in this step
TrapsCpuOn(c) == Traps(c) /\ call'[c].handler = "turn_on_cpu"

\* the existing CPUs whose stored reg_value equals the low 16 bits of x
CpusWithReg(x) == { k \in Cpus : psci_cpu_data_array[k].reg_value = Lo16(Lo32(x)) }

\* C22: cpu_on with a target_mpidr whose low 16 bits match the reg_value of
\* no CPU returns INVALID_PARAMETERS (-2) in X0, writes no spintable slot
\* and changes no PSCI state.
C22_UnknownMpidrRejected ==
    [][\A c \in Cpus :
         (TrapsCpuOn(c) /\ CpusWithReg(regs'[c].x1) = {}) =>
            /\ regs'[c].x0 = IntToX(PSCI_STATUS_INVALID_PARAMETERS)
            /\ pc'[c] = "ret"
            /\ spintable' = spintable
            /\ psci_state' = psci_state]_vars

\* C23: cpu_on with a target_mpidr whose low 16 bits equal the reg_value of
\* an existing CPU k writes entry_point into the release slot of k and of no
\* other CPU and returns SUCCESS, for every k, CPU 0 included.
C23_ReleaseSlotOfTarget ==
    [][\A c \in Cpus :
         \A k \in CpusWithReg(regs'[c].x1) :
            TrapsCpuOn(c) =>
               /\ spintable' = (k :> call'[c].args[2]) @@ spintable
               /\ regs'[c].x0 = IntToX(PSCI_STATUS_SUCCESS)
               /\ pc'[c] = "ret"]_vars

(***************************************************************************)
(* Properties of PSCI_FEATURES and of the dispatch table.                  *)
(***************************************************************************)
\* the function IDs 0x84000000 + n and 0xC4000000 + n of every capability
\* bit n, and SMCCC_VERSION
FeatureProbeIds == { Fid32(n) : n \in 0..31 } \cup { Fid64(n) : n \in 0..31 } \cup { SMCCC_VERSION }

\* bit (fid & 0x1F) is set in the capability mask and, for a function ID with
\* bit 30 set, in the 64-bit mask as well
ReportedByMasks(fid) ==
    /\ (fid[4] % 32) \in psci_capabilities
    /\ BitOf(fid, 30) = 1 => (fid[4] % 32) \in PSCI_CAP_64BIT_MASK

\* C24: features(fid) returns SUCCESS exactly when bit (fid & 0x1F) is set in
\* the capability mask and, if bit 30 of fid is set, in the 64-bit mask too;
\* otherwise NOT_SUPPORTED.  features changes no state.
C24_FeaturesFollowsMasks ==
    [][\A c \in Cpus :
         (Traps(c) /\ call'[c].handler = "features") =>
            /\ regs'[c].x0 = IF ReportedByMasks(Lo32(regs'[c].x1))
                             THEN IntToX(PSCI_STATUS_SUCCESS)
                             ELSE IntToX(PSCI_STATUS_NOT_SUPPORTED)
            /\ \A fid \in FeatureProbeIds :
                  hv_psci_features(fid) = IF ReportedByMasks(fid)
                                          THEN PSCI_STATUS_SUCCESS
                                          ELSE PSCI_STATUS_NOT_SUPPORTED
            /\ pc'[c] = "ret"
            /\ psci_state' = psci_state]_vars

\* FEATURES has answered NOT_SUPPORTED for one ID and SUCCESS for another
C24_Witness ==
    \E c \in Cpus :
        /\ pc[c] = "ret" /\ call[c].handler = "features"
        /\ regs[c].x0 = IntToX(PSCI_STATUS_NOT_SUPPORTED)
        /\ ~ReportedByMasks(Lo32(regs[c].x1))
        /\ calls > 1

\* the function ID has a case in its switch of hv_handle_psci_smc
Dispatched(fid) == SmcCase(fid) \notin {"default", "no_case"}

\* C25: the capability mask and the dispatch table agree: a function ID is
\* dispatched to a handler exactly when FEATURES reports it as supported, and
\* an ID that is not dispatched is answered with NOT_SUPPORTED.
C25_MaskAgreesWithDispatch ==
    [][\A c \in Cpus :
         Traps(c) =>
            /\ Dispatched(call'[c].fid) <=>
                  hv_psci_features(call'[c].fid) = PSCI_STATUS_SUCCESS
            /\ ~Dispatched(call'[c].fid) =>
                  regs'[c].x0 = IntToX(PSCI_STATUS_NOT_SUPPORTED)]_vars

(***************************************************************************)
(* Invariants between SMC calls.                                           *)
(***************************************************************************)
\* CPU c is not inside a PSCI handler: it runs guest code, waits in the spin
\* table, or sleeps after cpu_off
Outside(c) == pc[c] \in {"guest", "spin", "off_sleep"}

\* no CPU is inside a PSCI handler
BetweenCalls == halted = "run" /\ \A c \in Cpus : Outside(c)

\* C26: between SMC calls, a CPU with affinity_state OFF has an ancestor
\* cluster whose local_power_state is not ON, unless another CPU of that
\* cluster has affinity_state ON.
C26_ClusterFollowsOffCpus ==
    BetweenCalls =>
        \A c \in Cpus :
            psci_cpu_data_array[c].affinity_state = AFFINITY_STATE_OFF =>
                \/ psci_non_cpu_nodes[psci_cpu_nodes[c]].local_power_state # PSCI_ON_STATE
                \/ \E d \in Cpus \ {c} :
                      /\ psci_cpu_nodes[d] = psci_cpu_nodes[c]
                      /\ psci_cpu_data_array[d].affinity_state = AFFINITY_STATE_ON

\* C27: whenever CPU c is not inside a PSCI handler, affinity_state[c] == ON
\* implies local_cpu_state[c] == ON.
C27_OnMeansLocalOn ==
    \A c \in Cpus :
        (halted = "run" /\ Outside(c)
            /\ psci_cpu_data_array[c].affinity_state = AFFINITY_STATE_ON) =>
                psci_cpu_data_array[c].local_cpu_state = PSCI_ON_STATE

\* a CPU is back in the guest after a call, ON, while another CPU sleeps
\* after cpu_off with affinity_state OFF
C27_Witness ==
    \E c, d \in Cpus :
        /\ pc[c] = "guest" /\ elr[c] = SmcInsn + 4
        /\ psci_cpu_data_array[c].affinity_state = AFFINITY_STATE_ON
        /\ psci_cpu_data_array[c].local_cpu_state = PSCI_ON_STATE
        /\ pc[d] = "off_sleep"
        /\ psci_cpu_data_array[d].affinity_state = AFFINITY_STATE_OFF

(***************************************************************************)
(* Cache maintenance and the order of the steps of cpu_off.                *)
(***************************************************************************)
\* CPU c is about to release a node lock, is in a WFI or in deep sleep, or
\* returns
AtReleaseSleepOrReturn(c) ==
    pc[c] \in {"release", "standby_wfi", "suspend_wfi", "off_sleep", "ret"}

\* C28: every write to affinity_state, local_cpu_state, the target suspend
\* level or a non-CPU node's local_power_state is followed, before the
\* writing CPU's next lock release, WFI, sleep or return, by a cache
\* clean+invalidate whose range covers the written field.
C28_WritesCleanedAndInvalidated ==
    \A c \in Cpus : AtReleaseSleepOrReturn(c) => call[c].dirty = {}

\* the unlock iterations CPU c has run in its current call
Unlocks(c) == SelectSeq(call[c].log, LAMBDA e : e[1] = "unlock")

\* hv_psci_release_power_domain_tree_locks of the current call has returned
LocksReleased(c) == Len(Unlocks(c)) = Len(ReleaseLevels(frame[c].end_power_level))

\* the step clears the C bit of CPU c's system control register
DisablesDataCache(c) == sctlr_c[c] = 1 /\ sctlr_c'[c] = 0

\* C29: cpu_off coordinates to MAX_LEVEL under the node locks, releases the
\* node locks, then disables and cleans the data cache, then sets
\* affinity_state to OFF, then writes the CPU-start register, then sleeps;
\* in particular the locks are released before data caching is disabled.
C29_CpuOffStepOrder ==
    [][\A c \in Cpus : call[c].handler = "turn_off_cpu" =>
          /\ CoordinationCompletes(c) => ~LocksReleased(c)
          /\ DisablesDataCache(c) => LocksReleased(c)
          /\ (psci_cpu_data_array[c].affinity_state # AFFINITY_STATE_OFF
                /\ psci_cpu_data_array'[c].affinity_state = AFFINITY_STATE_OFF)
                => sctlr_c[c] = 0 /\ LocksReleased(c)
          /\ mmio'[c] # mmio[c]
                => psci_cpu_data_array[c].affinity_state = AFFINITY_STATE_OFF
          /\ EntersDeepSleep(c) => mmio'[c] # <<>>]_vars

(***************************************************************************)
(* Ownership of the per-CPU data.                                          *)
(***************************************************************************)
\* the per-CPU data and the requested entries of CPU j
OwnData(j) ==
    << psci_cpu_data_array[j],
       [l \in Levels |-> psci_requested_local_power_states[l][j]] >>

\* C30: after initialisation no PSCI operation executed by CPU i writes a
\* field of the per-CPU data of another CPU j, nor a requested-state entry
\* of another CPU j; cpu_on executed by i with j as its target included.
C30_OnlyOwnerWrites ==
    [][\A i \in Cpus :
          /\ StepOf(i) => OthersData(i)' = OthersData(i)
          /\ OwnData(i)' # OwnData(i) => StepOf(i)]_vars

\* CPU i returns from a cpu_on whose target is CPU j, and j, now running,
\* has written its own local state in a call of its own while i's data
\* stayed ON
C30_Witness ==
    \E i, j \in Cpus :
        /\ i # j
        /\ pc[i] = "ret" /\ call[i].handler = "turn_on_cpu"
        /\ call[i].ret = <<PSCI_STATUS_SUCCESS>>
        /\ hv_psci_translate_mpidr_to_cpu(call[i].args[1]) = j
        /\ SlotOf(j) # Zero64
        /\ call[j].handler \in {"turn_off_cpu", "suspend_cpu"}
        /\ psci_cpu_data_array[j].local_cpu_state # PSCI_ON_STATE
        /\ psci_cpu_data_array[i].local_cpu_state = PSCI_ON_STATE
        /\ psci_cpu_data_array[i].affinity_state = AFFINITY_STATE_ON

(***************************************************************************)
(* The power-domain tree that hv_psci_init builds.                         *)
(***************************************************************************)
\* hv_psci.h: the cluster and core counts of the supported chips
NUM_SYSTEMS_ACTIVE == 1
T8103_NUM_CLUSTERS == 2
T6000_NUM_CLUSTERS == 3
T6002_NUM_CLUSTERS == T6000_NUM_CLUSTERS * 2
T6020_NUM_CLUSTERS == 3
T8103_CORES_PER_CLUSTER == 4
T600X_E_CLUSTER_CORE_COUNT == 2
T600X_P_CLUSTER_CORE_COUNT == 4
T602X_E_CLUSTER_CORE_COUNT == 4
T602X_P_CLUSTER_CORE_COUNT == 4

\* the T8112 descriptor equals this one
apple_t8103_power_domain_tree_descriptor ==
    << NUM_SYSTEMS_ACTIVE, T8103_NUM_CLUSTERS,
       T8103_CORES_PER_CLUSTER, T8103_CORES_PER_CLUSTER >>

\* the T6001 descriptor equals this one
apple_t6000_power_domain_tree_descriptor ==
    << NUM_SYSTEMS_ACTIVE, T6000_NUM_CLUSTERS, T600X_E_CLUSTER_CORE_COUNT,
       T600X_P_CLUSTER_CORE_COUNT, T600X_P_CLUSTER_CORE_COUNT >>

\* two dies: the cluster list of the T6001 twice under one root
apple_t6002_power_domain_tree_descriptor ==
    << NUM_SYSTEMS_ACTIVE, T6002_NUM_CLUSTERS, T600X_E_CLUSTER_CORE_COUNT,
       T600X_P_CLUSTER_CORE_COUNT, T600X_P_CLUSTER_CORE_COUNT,
       T600X_E_CLUSTER_CORE_COUNT, T600X_P_CLUSTER_CORE_COUNT,
       T600X_P_CLUSTER_CORE_COUNT >>

\* the T6021 descriptor equals this one
apple_t6020_power_domain_tree_descriptor ==
    << NUM_SYSTEMS_ACTIVE, T6020_NUM_CLUSTERS, T602X_E_CLUSTER_CORE_COUNT,
       T602X_P_CLUSTER_CORE_COUNT, T602X_P_CLUSTER_CORE_COUNT >>

\* the descriptors hv_psci_init selects by chip_id
ChipDescriptors ==
    { apple_t8103_power_domain_tree_descriptor, apple_t6000_power_domain_tree_descriptor,
      apple_t6002_power_domain_tree_descriptor, apple_t6020_power_domain_tree_descriptor }

\* what hv_psci_init leaves for every chip descriptor and every content of
\* the uninitialised nodes_index[]
ChipInits ==
    { hv_psci_init(map, g1, g2) : map \in ChipDescriptors, g1 \in Garbage, g2 \in Garbage }

\* the CPUs whose ancestor chain (the parent_node links) contains node n
CpusUnderIn(cpuParent, non, num_cores, n) ==
    { c \in 0..(num_cores - 1) :
        LET chain == hv_psci_get_parent_nodes(cpuParent, non, c, PSCI_MAX_POWER_LEVEL)
        IN  \E i \in 1..Len(chain) : chain[i] = n }

\* first_cpu_idx and num_cpu_siblings of every non-CPU node describe the
\* CPUs under the node
LimitsDescribeCpus(cpuParent, non, num_cores) ==
    \A n \in DOMAIN non :
        LET under == CpusUnderIn(cpuParent, non, num_cores, n)
        IN  /\ non[n].num_cpu_siblings = Cardinality(under)
            /\ under # {}
            /\ non[n].first_cpu_idx \in under
            /\ \A c \in under : non[n].first_cpu_idx <= c

\* the same of the trees of the chip descriptors
ChipLimitsDescribeCpus ==
    \A i \in ChipInits : LimitsDescribeCpus(i.cpu, i.non, i.num_cores)

\* C31: after tree construction and update_limits, for every supported
\* topology descriptor and every non-CPU node n, n.first_cpu_idx is the
\* smallest CPU index whose ancestor chain contains n and n.num_cpu_siblings
\* is the number of CPUs whose ancestor chain contains n.
C31_LimitsOfEveryNode ==
    /\ LimitsDescribeCpus(psci_cpu_nodes, psci_non_cpu_nodes, psci_num_cores)
    /\ ChipLimitsDescribeCpus

\* a tree with two clusters, the second one starting at a CPU other than 0,
\* some CPU having made a call since
C31_Witness ==
    /\ calls > 0
    /\ \E n \in NonCpuNodes :
          /\ psci_non_cpu_nodes[n].first_cpu_idx > 0
          /\ psci_non_cpu_nodes[n].num_cpu_siblings > 0

\* the number of cores a descriptor lists: the sum of its cluster sizes
RECURSIVE CoresListed(_, _)
CoresListed(map, i) == IF i > Len(map) THEN 0 ELSE map[i] + CoresListed(map, i + 1)

\* the nodes without a parent
SystemNodes(non) == { n \in DOMAIN non : non[n].parent_node = ROOT_PARENT }

\* the chain of every CPU is one cluster node, then the system node
ChainsReachSystem(cpuParent, non, num_cores) ==
    /\ Cardinality(SystemNodes(non)) = 1
    /\ \A c \in 0..(num_cores - 1) :
          LET chain == hv_psci_get_parent_nodes(cpuParent, non, c, PSCI_MAX_POWER_LEVEL)
          IN  /\ Len(chain) = PSCI_MAX_POWER_LEVEL
              /\ \A i \in 1..Len(chain) : chain[i] \in DOMAIN non
              /\ chain[PSCI_MAX_POWER_LEVEL] \in SystemNodes(non)
              /\ \A i \in 1..(PSCI_MAX_POWER_LEVEL - 1) : chain[i] \notin SystemNodes(non)
              /\ Cardinality({ i \in 1..Len(chain) :
                     non[chain[i]].power_level = PSCI_CLUSTER_POWER_LEVEL }) = 1

\* the trees of the chip descriptors, the two-die one included, and the value
\* the builder returns for them
ChipChainsReachSystem ==
    \A map \in ChipDescriptors \cup Topologies :
        LET tree == hv_psci_populate_power_domain_tree(map)
        IN  /\ tree.j = CoresListed(map, 3)
            /\ DOMAIN tree.cpu = 0..(tree.j - 1)
            /\ Cardinality(DOMAIN tree.non) = NUM_SYSTEMS_ACTIVE + map[2]
            /\ ChainsReachSystem(tree.cpu, tree.non, tree.j)

\* C32: after tree construction, for every supported topology descriptor
\* (the two-die descriptor with its doubled cluster list included) and every
\* CPU c, following the parent links from c reaches the single system node
\* in exactly MAX_LEVEL steps through exactly one cluster node; the builder
\* returns the total number of CPUs of the descriptor.
C32_ChainsEndAtSystemNode ==
    /\ ChainsReachSystem(psci_cpu_nodes, psci_non_cpu_nodes, psci_num_cores)
    /\ psci_num_cores = Cardinality(DOMAIN psci_cpu_nodes)
    /\ ChipChainsReachSystem

\* two CPUs under different clusters, both running
C32_Witness ==
    \E c, d \in Cpus :
        /\ psci_cpu_nodes[c] # psci_cpu_nodes[d]
        /\ pc[c] = "guest" /\ pc[d] = "guest"

(***************************************************************************)
(* The state hv_psci_init leaves.                                          *)
(***************************************************************************)
\* no CPU has trapped since hv_psci_init
JustInitialised == calls = 0

\* the requested matrix and the local_power_state of the non-CPU nodes as
\* init leaves them: the boot CPU votes ON and its path is ON, all else OFF
RequestedAndNodesAfterInit(cpuParent, non, req, num_cores) ==
    LET path == hv_psci_get_parent_nodes(cpuParent, non, BootCpu, PSCI_MAX_POWER_LEVEL)
        onPath == { path[i] : i \in 1..Len(path) }
    IN  /\ \A l \in Levels : \A c \in 0..(num_cores - 1) :
              req[l][c] = IF c = BootCpu THEN PSCI_ON_STATE ELSE PSCI_OFF_STATE
        /\ \A n \in DOMAIN non :
              non[n].local_power_state =
                  IF n \in onPath THEN PSCI_ON_STATE ELSE PSCI_OFF_STATE

\* the same of the chip descriptors
ChipRequestedAndNodesAfterInit ==
    \A i \in ChipInits : RequestedAndNodesAfterInit(i.cpu, i.non, i.req, i.num_cores)

\* C33: immediately after hv_psci_init, requested[l][c] is OFF for every
\* level l and every CPU c other than the boot CPU, requested[l][boot] is ON
\* for every level l, every non-CPU node on the boot CPU's path has
\* local_power_state ON and every other non-CPU node has it OFF.
C33_RequestedAndNodesAfterInit ==
    /\ JustInitialised =>
          RequestedAndNodesAfterInit(psci_cpu_nodes, psci_non_cpu_nodes,
                                     psci_requested_local_power_states, psci_num_cores)
    /\ ChipRequestedAndNodesAfterInit

\* just after init of a tree with a second CPU under a cluster of its own:
\* that cluster is off the boot CPU's path
C33_Witness ==
    /\ JustInitialised
    /\ \E c \in Cpus : c # BootCpu /\ psci_cpu_nodes[c] # psci_cpu_nodes[BootCpu]

(***************************************************************************)
(* The levels above an ON level in hv_psci_coordinate_power_states.        *)
(***************************************************************************)
\* CPU c runs the second loop of the coordinator
RunsSecondLoop(c) == pc[c] = "coord_rest" /\ pc'[c] = "set_target_cpu"

\* the levels the second loop visits when the first one stopped at an ON
\* level frame[c].level
LevelsAboveOn(c) == (frame[c].level + 1) .. frame[c].end_power_level

\* C34 as stated: if the coordinated target at a level L <= end_level is ON,
\* then for every level l with L < l <= end_level the caller's
\* requested[l-1][cpu] is set to ON and state_info[l] is set to ON.
C34_AboveOnRequestedOn ==
    [][\A c \in Cpus : RunsSecondLoop(c) =>
          \A l \in LevelsAboveOn(c) :
              /\ psci_requested_local_power_states'[l][c] = PSCI_ON_STATE
              /\ frame'[c].state_info[l] = PSCI_ON_STATE]_vars

\* C34 amended: if the coordinated target at a level L <= end_level is ON,
\* then for every level l with L < l <= end_level the caller's
\* requested[l-1][cpu] is set to the state the caller requested for l and
\* state_info[l] is set to ON; the entries of the other levels and of the
\* other CPUs are left alone.
C34_AboveOnRequestedKept ==
    [][\A c \in Cpus : RunsSecondLoop(c) =>
          /\ \A l \in LevelsAboveOn(c) :
                /\ psci_requested_local_power_states'[l][c] = frame[c].state_info[l]
                /\ frame'[c].state_info[l] = PSCI_ON_STATE
          /\ \A l \in Levels \ LevelsAboveOn(c) :
                /\ psci_requested_local_power_states'[l] = psci_requested_local_power_states[l]
                /\ frame'[c].state_info[l] = frame[c].state_info[l]]_vars

\* a CPU whose coordination stopped at an ON cluster has passed the second
\* loop: its vote for the system level is not ON, the target is
C34_Witness ==
    \E c \in Cpus :
        /\ pc[c] = "set_target_cpu"
        /\ frame[c].level < frame[c].end_power_level
        /\ frame[c].state_info[frame[c].level] = PSCI_ON_STATE
        /\ frame[c].state_info[frame[c].end_power_level] = PSCI_ON_STATE
        /\ psci_requested_local_power_states[frame[c].end_power_level][c] # PSCI_ON_STATE

(***************************************************************************)
(* hv_psci_validate_suspend_request and hv_psci_get_target_power_state     *)
(* applied to every input of a bounded set: CPU 0 of a one-cluster tree    *)
(* holds the arguments in call[0].args and the value returned in           *)
(* call[0].ret.                                                            *)
(***************************************************************************)
\* a cluster of three cores: the requested matrix has three columns
PureTopology == <<1, 1, 3>>

\* the local states a power_domain_state entry or a requested entry holds
LocalStates == { PSCI_ON_STATE, PSCI_IDLE_STANDBY_STATE, PSCI_OFF_STATE }

\* the arguments of hv_psci_validate_suspend_request: power_state_info and
\* is_power_down_state
ValidateInputs ==
    { <<info, is_power_down_state>> :
        info \in [0..PSCI_MAX_POWER_LEVEL -> LocalStates], is_power_down_state \in {0, 1} }

\* the arguments of hv_psci_get_target_power_state: the level, the column
\* states points to and num_cpu_siblings
TargetInputs ==
    { <<PSCI_CLUSTER_POWER_LEVEL, 0, num_cpu_siblings>> : num_cpu_siblings \in 1..3 }

PureCall(h, args) == [ NoCall EXCEPT !.handler = h, !.args = args ]

PureInit ==
    \E row \in [0..2 -> LocalStates] :
    \E first \in [ h : {"hv_psci_validate_suspend_request"}, args : ValidateInputs ]
                 \cup [ h : {"hv_psci_get_target_power_state"}, args : TargetInputs ] :
        LET i == hv_psci_init(PureTopology, 0, 0) IN
        /\ first.h = "hv_psci_validate_suspend_request" => row = i.req[1]
        /\ psci_num_cores = i.num_cores
        /\ psci_cpu_nodes = i.cpu
        /\ psci_non_cpu_nodes = i.non
        /\ psci_requested_local_power_states =
              [i.req EXCEPT ![PSCI_CLUSTER_POWER_LEVEL] = row]
        /\ psci_locks = [k \in DOMAIN i.non |-> NOBODY]
        /\ psci_cpu_data_array = i.data
        /\ sctlr_c = [c \in DOMAIN i.cpu |-> 1]
        /\ spintable = EmptyFn
        /\ mmio = [c \in DOMAIN i.cpu |-> <<>>]
        /\ halted = "run"
        /\ pc = [c \in DOMAIN i.cpu |-> IF c = BootCpu THEN "apply" ELSE "spin"]
        /\ regs = [c \in DOMAIN i.cpu |-> NoRegs]
        /\ frame = [c \in DOMAIN i.cpu |-> NoFrame]
        /\ call = [c \in DOMAIN i.cpu |->
                      IF c = BootCpu THEN PureCall(first.h, first.args) ELSE NoCall]
        /\ calls = 0
        /\ elr = [c \in DOMAIN i.cpu |-> 0]
        /\ bhl = NOBODY

\* hv_psci_validate_suspend_request(&power_state_info, is_power_down_state),
\* hv_psci_find_max_off_level returning any of the values it can return
ApplyValidateSuspendRequest ==
    /\ pc[BootCpu] = "apply"
    /\ call[BootCpu].handler = "hv_psci_validate_suspend_request"
    /\ \E max_power_off_level \in hv_psci_find_max_off_level(call[BootCpu].args[1]) :
          call' = [call EXCEPT ![BootCpu].ret =
                     << hv_psci_validate_suspend_request(call[BootCpu].args[1],
                            call[BootCpu].args[2], max_power_off_level) >>]
    /\ pc' = [pc EXCEPT ![BootCpu] = "applied"]
    /\ UNCHANGED << psci_num_cores, psci_cpu_nodes, psci_state, halted, regs, frame,
                    calls, elr, bhl >>

\* hv_psci_get_target_power_state(level, states, num_cpu_siblings), states
\* pointing at psci_requested_local_power_states[level - 1][start_index]
ApplyGetTargetPowerState ==
    /\ pc[BootCpu] = "apply"
    /\ call[BootCpu].handler = "hv_psci_get_target_power_state"
    /\ call' = [call EXCEPT ![BootCpu].ret =
                  << hv_psci_get_target_power_state(psci_requested_local_power_states,
                         call[BootCpu].args[1], call[BootCpu].args[2],
                         call[BootCpu].args[3]) >>]
    /\ pc' = [pc EXCEPT ![BootCpu] = "applied"]
    /\ UNCHANGED << psci_num_cores, psci_cpu_nodes, psci_state, halted, regs, frame,
                    calls, elr, bhl >>

PureNext ==
    \/ ApplyValidateSuspendRequest
    \/ ApplyGetTargetPowerState

PureSpec == PureInit /\ [][PureNext]_vars

\* CPU 0 has applied the function h
Applied(h) == pc[BootCpu] = "applied" /\ call[BootCpu].handler = h

\* walking from the target level down to the CPU the state type gets
\* shallower or stays equal
ShallowerTowardCpu(info) ==
    LET target_level == hv_psci_find_target_suspend_level(info)
    IN  \A i \in 0..PSCI_MAX_POWER_LEVEL :
           (i < target_level /\ i + 1 <= PSCI_MAX_POWER_LEVEL /\ i + 1 <= target_level) =>
              hv_psci_power_state_categorize_type(info[i])
                 <= hv_psci_power_state_categorize_type(info[i + 1])

\* some level of the request is OFF
HasOffLevel(info) ==
    \E i \in 0..PSCI_MAX_POWER_LEVEL :
        hv_psci_power_state_categorize_type(info[i]) = 2

\* C35: validate_suspend_request walks the levels from target_level down to
\* the CPU level and returns INVALID_PARAMETERS exactly when monotonicity
\* fails, monotonicity meaning that the state type (RUN < RETN < OFF) gets
\* shallower, or stays equal, toward the CPU; with is_power_down == 0 it
\* additionally rejects every request that has an OFF level.
C35_RejectsExactlyNonMonotone ==
    Applied("hv_psci_validate_suspend_request") =>
        LET info == call[BootCpu].args[1]
            is_power_down_state == call[BootCpu].args[2]
        IN  (call[BootCpu].ret = <<PSCI_STATUS_INVALID_PARAMETERS>>)
               <=> (~ShallowerTowardCpu(info)
                       \/ (is_power_down_state = 0 /\ HasOffLevel(info)))

\* the num_cpu_siblings entries states points to
GivenStates ==
    LET level == call[BootCpu].args[1]
        start_index == call[BootCpu].args[2]
        num_cpu_siblings == call[BootCpu].args[3]
    IN  [ k \in 1..num_cpu_siblings |->
            psci_requested_local_power_states[level][start_index + k - 1] ]

\* C36: get_target_power_state(states, k) returns the numeric minimum of the
\* k given states, for every k >= 1 and every list of k local states in
\* {ON, IDLE_STANDBY, OFF}, reading exactly k entries.
C36_TargetIsMinimumOfGiven ==
    Applied("hv_psci_get_target_power_state") =>
        /\ \E k \in 1..Len(GivenStates) : call[BootCpu].ret = << GivenStates[k] >>
        /\ \A k \in 1..Len(GivenStates) : call[BootCpu].ret[1] <= GivenStates[k]

\* two states were given and the entry after them is lower than both
C36_Witness ==
    /\ Applied("hv_psci_get_target_power_state")
    /\ Len(GivenStates) = 2
    /\ call[BootCpu].ret = << PSCI_IDLE_STANDBY_STATE >>
    /\ psci_requested_local_power_states[call[BootCpu].args[1]][2] = PSCI_ON_STATE

(***************************************************************************)
(* Locks and the data cache when a CPU leaves the PSCI code.               *)
(***************************************************************************)
\* the node locks CPU c holds
LocksHeldBy(c) == { k \in DOMAIN psci_locks : psci_locks[k] = c }

\* CPU c executes WFI inside cpu_suspend, is in the deep sleep of cpu_off,
\* returns from a PSCI call or runs guest code
AsleepOrBackInGuest(c) ==
    pc[c] \in {"standby_wfi", "suspend_wfi", "off_sleep", "ret", "guest"}

\* C37: a CPU holds no PSCI node lock whenever it executes WFI inside
\* cpu_suspend, enters deep sleep in cpu_off, or returns from any PSCI call
\* to the guest, on every path, the pending-interrupt early exit included.
C37_NoLockHeldOutside ==
    \A c \in Cpus : AsleepOrBackInGuest(c) => LocksHeldBy(c) = {}

\* a CPU that had locked a node returns through the pending-interrupt exit
C37_Witness ==
    \E c \in Cpus :
        /\ pc[c] = "ret" /\ call[c].handler = "suspend_cpu"
        /\ frame[c].skip_wfi
        /\ \E i \in 1..Len(call[c].log) :
              call[c].log[i][1] = "lock" /\ call[c].log[i][3]

\* CPU c returns from a power-down CPU_SUSPEND after it woke from the WFI
ReturnsFromPowerDownSuspend(c) ==
    /\ pc[c] = "ret" /\ call[c].handler = "suspend_cpu"
    /\ frame[c].op = "finish" /\ frame[c].is_power_down_state # 0

\* C38: if a power-down CPU_SUSPEND call returns to the guest (the CPU woke
\* from WFI), the CPU's data-cache enable bit (the C bit of the system
\* control register) has the same value as before the call.
C38_CacheEnableRestored ==
    \A c \in Cpus : ReturnsFromPowerDownSuspend(c) => sctlr_c[c] = frame[c].sctlr_old

(***************************************************************************)
(* The assertion of hv_psci_suspend_cpu.                                   *)
(***************************************************************************)
\* CPU c traps into CPU_SUSPEND with a whitelisted power_state in this step
TrapsWhitelistedSuspend(c) ==
    TrapsSuspend(c) /\ Lo32(regs'[c].x1) \in WhitelistedEncodings

\* C39: for every whitelisted power_state hv_psci_validate_suspend_request
\* returns SUCCESS, so the assertion in hv_psci_suspend_cpu never fails (the
\* machine does not stop in assert_fail); hv_psci_find_max_off_level yields
\* PSCI_INVALID_LEVEL for the two standby encodings.
C39_AssertionNeverFails ==
    [][\A c \in Cpus : TrapsWhitelistedSuspend(c) => halted' # "panic"]_vars


(***************************************************************************)
(* The per-CPU data after hv_psci_init.                                    *)
(***************************************************************************)
\* C40: immediately after hv_psci_init every CPU of the topology other than
\* the boot CPU has affinity_state OFF, local_cpu_state OFF and target
\* suspend level PSCI_INVALID_LEVEL, and the boot CPU has affinity_state ON
\* and local_cpu_state ON.
C40_PerCpuDataAfterInit ==
    JustInitialised =>
        \A c \in Cpus :
            LET d == psci_cpu_data_array[c]
            IN  IF c = BootCpu
                THEN /\ d.affinity_state = AFFINITY_STATE_ON
                     /\ d.local_cpu_state = PSCI_ON_STATE
                ELSE /\ d.affinity_state = AFFINITY_STATE_OFF
                     /\ d.local_cpu_state = PSCI_OFF_STATE
                     /\ d.target_power_level = PSCI_INVALID_LEVEL

====
